---------------------------- MODULE Spec2Model ----------------------------
(***************************************************************************)
(* Model of the GamblingKings mahjong backend: the three DynamoDB tables   *)
(* (Connections, Games, GameState), the game-state service                 *)
(* (gameStateDBService), the lobby handlers and the broadcast functions.   *)
(* Every DynamoDB call and every ws.send is one atomic step; a handler is   *)
(* a process that moves from await to await, so that handlers of different *)
(* connections interleave between their store accesses.                    *)
(***************************************************************************)
EXTENDS Integers, Sequences, FiniteSets, Bags, TLC

VARIABLES
    connections,  \* Connections table: connectionId -> [present, hasGameId, gameId]
    games,        \* Games table: gameId -> [present, users, state, gameLoadedCount]
    gameState,    \* GameState table: gameId -> GameState record
    proc,         \* the handler invocation in flight for each connection
    outbox,       \* the ws.send calls issued by the broadcast in progress, in
                  \* issue order, each with the state of its promise
    hist          \* history of the run: the ids handed out so far and what
                  \* the properties read of the steps taken

vars == <<connections, games, gameState, proc, outbox, hist>>

-----------------------------------------------------------------------------
(* Program constants *)

DEFAULT_WALL_LENGTH == 144

DEFAULT_MAX_USERS_IN_GAME == 4

DEFAULT_HAND_LENGTH == 13

(* Bounds of the model *)

MaxShuffles == 2

MaxDrawers == 2

MaxDrawCalls == 146

MaxRoundDraws == 2

MaxInteractors == 3

MaxConnections == 5

MaxGames == 2

MaxInFlight == 2

MaxLobbyCalls == 6

MaxRemovalCalls == 3

-----------------------------------------------------------------------------
(* Tiles and the wall (games/mahjong/Wall): a tile is its kind; kinds      *)
(* 1..34 are the suited and honor tiles, four copies each, kinds 35..42    *)
(* the eight bonus tiles.                                                  *)

NoTile == 0

InitialTiles ==
    [i \in 1..DEFAULT_WALL_LENGTH |->
        IF i <= DEFAULT_WALL_LENGTH - 8
        THEN ((i - 1) \div 4) + 1
        ELSE 34 + (i - (DEFAULT_WALL_LENGTH - 8))]

\* The s-th shuffle of the wall: the tile at position i comes from position
\* ((6s-1)*(i-1) + s) mod 144 of the unshuffled wall (6s-1 is coprime to 144,
\* so every s gives a permutation).
ShufflePosition(s, i) ==
    (((6 * s - 1) * (i - 1) + s) % DEFAULT_WALL_LENGTH) + 1

HongKongWall(s) ==
    [i \in 1..DEFAULT_WALL_LENGTH |-> InitialTiles[ShufflePosition(s, i)]]

Shuffles == 1..MaxShuffles

\* Hands are dealt in the order of connectionIds, each from the wall cursor on.
generateHongKongMahjongHands(tiles, connectionIds) ==
    [i \in 1..Len(connectionIds) |->
        [connectionId |-> connectionIds[i],
         hand |-> SubSeq(tiles, (i - 1) * DEFAULT_HAND_LENGTH + 1,
                         i * DEFAULT_HAND_LENGTH),
         playedTiles |-> <<>>]]

\* wall.getCurrentTileIndex() after the deal
getCurrentTileIndexAfterDeal(connectionIds) ==
    Len(connectionIds) * DEFAULT_HAND_LENGTH

-----------------------------------------------------------------------------
(* The GameState table *)

GameId == "g1"

\* the attributes of a GameState item besides its key
GameStateAttributes ==
    {"wall", "hands", "currentIndex", "dealer", "currentWind", "currentTurn",
     "interactionCount", "playedTileInteractions"}

\* the attributes startNewGameRound and resetPlayedTileInteraction SET
RoundAttributes ==
    {"currentIndex", "wall", "hands", "interactionCount", "playedTileInteractions"}

InteractionAttributes == {"interactionCount", "playedTileInteractions"}

\* no item; attrs names the attributes an item holds: an update that meets
\* no item creates one with the key and the attributes it writes only
NoGameState ==
    [present |-> FALSE, attrs |-> {}, wall |-> <<>>, hands |-> <<>>,
     currentIndex |-> 0, dealer |-> 0, currentWind |-> 0, currentTurn |-> 0,
     interactionCount |-> 0, playedTileInteractions |-> <<>>]

\* the item was read and the attribute is not undefined
Has(gs, attribute) == gs.present /\ attribute \in gs.attrs

\* the number JavaScript computes from undefined: (undefined + 1) % 4
NaN == -1

\* initGameState: the item put into the table
initGameStateCursorAtStart(s, connectionIds) ==
    [present |-> TRUE,
     attrs |-> GameStateAttributes,
     wall |-> HongKongWall(s),
     hands |-> generateHongKongMahjongHands(HongKongWall(s), connectionIds),
     currentIndex |-> 0,
     dealer |-> 0,
     currentWind |-> 0,
     currentTurn |-> 0,
     interactionCount |-> 0,
     playedTileInteractions |-> <<>>]

initGameState(s, connectionIds) ==
    [present |-> TRUE,
     attrs |-> GameStateAttributes,
     wall |-> HongKongWall(s),
     hands |-> generateHongKongMahjongHands(HongKongWall(s), connectionIds),
     currentIndex |-> getCurrentTileIndexAfterDeal(connectionIds),
     dealer |-> 0,
     currentWind |-> 0,
     currentTurn |-> 0,
     interactionCount |-> 0,
     playedTileInteractions |-> <<>>]

\* incrementCurrentTileIndex: UpdateExpression 'ADD currentIndex 1', no condition
incrementCurrentTileIndex(gs) ==
    [gs EXCEPT !.present = TRUE, !.attrs = @ \cup {"currentIndex"},
               !.currentIndex = @ + 1]

\* drawTile's test 'currentIndex >= Wall.DEFAULT_WALL_LENGTH'
WallExhaustedOffByOne(currentIndex) == currentIndex > DEFAULT_WALL_LENGTH

WallExhausted(currentIndex) == currentIndex >= DEFAULT_WALL_LENGTH

\* wall[currentIndex] of a JavaScript array: undefined past the end
TileAt(wall, currentIndex) ==
    IF currentIndex + 1 \in DOMAIN wall THEN wall[currentIndex + 1] ELSE NoTile

-----------------------------------------------------------------------------
(* Processes *)

Players == <<1, 2, 3, 4>>

Idle == [pc |-> "idle"]

\* the startNewGameRound call that returned last
NoRound == [by |-> 0, isDealerChanged |-> FALSE, dealerBefore |-> 0,
            windBefore |-> 0, indexBefore |-> 0, failed |-> FALSE]

NoDraw == [by |-> 0, readIndex |-> 0, tileDrawn |-> NoTile]

\* the step taken last by a lobby handler
NoStep == [op |-> "none", by |-> 0, gameId |-> 0, usersBefore |-> <<>>,
           gameStateBefore |-> FALSE, threw |-> FALSE]

\* the broadcast function called last and the recipients it computed
\* the arguments of the broadcast function called last
NoArgs == [gameId |-> "none", callerConnectionId |-> 0, connectionIds |-> <<>>,
           sendToAll |-> FALSE,
                        gameState |-> NoGameState]

NoBroadcast == [fn |-> "none", recipients |-> <<>>, threw |-> FALSE,
                rejected |-> FALSE, args |-> NoArgs]

\* the handler invocation in progress or returned last: the action, the
\* caller, what was stored when it started, and the status it returned
NoCall == [action |-> "none", by |-> 0, gameId |-> 0, malformed |-> FALSE,
           hadGameId |-> FALSE, gamesBefore |-> <<>>, stored |-> FALSE,
           statusCode |-> 0]

\* roundDealer: the dealer of the round whose wall runs out
NoHist == [calls |-> 0, lastDraw |-> NoDraw, lastRound |-> NoRound,
           lastWrite |-> "none", created |-> 0, used |-> 0, lastStep |-> NoStep,
           broadcast |-> NoBroadcast,
           hostRemoved |-> {}, lastCall |-> NoCall, rounds |-> 0,
           roundDealer |-> 0]

\* the drawTile call that returned last is one of process p
Returned(p) == hist.lastDraw.by = p

\* drawTile, first await: getGameStateByGameId, then the exhaustion test, which
\* returns the empty signal at once. Without an item the destructuring of
\* undefined throws, and so does wall[currentIndex] of an item without wall
DrawTileGet(p) ==
    /\ proc[p].pc = "idle"
    /\ hist.calls < MaxDrawCalls
    /\ LET gs == gameState[GameId] IN
       IF Has(gs, "currentIndex") /\ WallExhausted(gs.currentIndex)
       THEN /\ proc' = proc
            /\ hist' = [hist EXCEPT !.calls = @ + 1, !.lastDraw =
                    [by |-> p, readIndex |-> gs.currentIndex, tileDrawn |-> NoTile]]
       ELSE IF ~Has(gs, "wall")
       THEN /\ proc' = proc
            /\ hist' = [hist EXCEPT !.calls = @ + 1]
       ELSE /\ proc' = [proc EXCEPT ![p] =
                    [pc |-> "increment", readIndex |-> gs.currentIndex,
                     tileDrawn |-> IF Has(gs, "currentIndex")
                                   THEN TileAt(gs.wall, gs.currentIndex)
                                   ELSE NoTile]]
            /\ hist' = [hist EXCEPT !.calls = @ + 1]
    /\ UNCHANGED <<connections, games, gameState, outbox>>

\* drawTile, second await: incrementCurrentTileIndex, then return tileDrawn
DrawTileIncrement(p) ==
    /\ proc[p].pc = "increment"
    /\ gameState' = [gameState EXCEPT ![GameId] = incrementCurrentTileIndex(@)]
    /\ proc' = [proc EXCEPT ![p] = Idle]
    /\ hist' = [hist EXCEPT !.lastWrite = "incrementCurrentTileIndex",
            !.lastDraw = [by |-> p, readIndex |-> proc[p].readIndex,
                          tileDrawn |-> proc[p].tileDrawn]]
    /\ UNCHANGED <<connections, games, outbox>>

-----------------------------------------------------------------------------
(* SpecDraw: the players of one started game draw concurrently *)

Drawers == 1..MaxDrawers

InitDraw ==
    /\ connections = <<>>
    /\ games = <<>>
    /\ \E s \in Shuffles : gameState = [g \in {GameId} |-> initGameState(s, Players)]
    /\ proc = [p \in Drawers |-> Idle]
    /\ outbox = <<>>
    /\ hist = NoHist

DrawGet == \E p \in Drawers : DrawTileGet(p)

DrawIncrement == \E p \in Drawers : DrawTileIncrement(p)

NextDraw == DrawGet \/ DrawIncrement

SpecDraw == InitDraw /\ [][NextDraw]_vars

\* C1: in every state of a round currentIndex is within 0..144, whatever the
\* interleaving of the players' drawTile calls, and a drawTile that read
\* currentIndex = 144 returned the empty signal.
C1_CurrentIndexWithinWall ==
    /\ gameState[GameId].currentIndex \in 0..DEFAULT_WALL_LENGTH
    /\ \A p \in Drawers :
          (Returned(p) /\ hist.lastDraw.readIndex = DEFAULT_WALL_LENGTH)
              => hist.lastDraw.tileDrawn = NoTile

-----------------------------------------------------------------------------
(* SpecSeqDraw: one caller draws from a started game, one call after the   *)
(* other, MaxDrawCalls times.                                               *)

InitSeqDraw ==
    /\ connections = <<>>
    /\ games = <<>>
    /\ \E s \in Shuffles : gameState = [g \in {GameId} |-> initGameState(s, Players)]
    /\ proc = [p \in {1} |-> Idle]
    /\ outbox = <<>>
    /\ hist = NoHist

SeqDrawGet == DrawTileGet(1)

SeqDrawIncrement == DrawTileIncrement(1)

NextSeqDraw == SeqDrawGet \/ SeqDrawIncrement

SpecSeqDraw == InitSeqDraw /\ [][NextSeqDraw]_vars

\* C9: after initGameState for four connections, once 144 sequential drawTile
\* calls have returned currentIndex is 144, and the 145th and every later call
\* returns the empty signal and leaves currentIndex at 144.
C9_SequentialDrawsExhaustWall ==
    proc[1].pc = "idle" =>
        /\ hist.calls >= DEFAULT_WALL_LENGTH
              => gameState[GameId].currentIndex = DEFAULT_WALL_LENGTH
        /\ hist.calls > DEFAULT_WALL_LENGTH
              => hist.lastDraw.tileDrawn = NoTile

C9_Witness ==
    /\ proc[1].pc = "idle"
    /\ hist.calls = DEFAULT_WALL_LENGTH + 1
    /\ hist.lastDraw.tileDrawn = NoTile
    /\ hist.lastDraw.readIndex = DEFAULT_WALL_LENGTH
    /\ gameState[GameId].currentIndex = DEFAULT_WALL_LENGTH

-----------------------------------------------------------------------------
(* Round restart: startNewGameRound, changeDealer, changeWind *)

\* startNewGameRound's update: SET currentIndex, wall, hands, interactionCount,
\* playedTileInteractions under the condition attribute_exists(gameId)
startNewGameRoundUpdateKeepIndex(gs, s, connectionIds) ==
    [gs EXCEPT !.attrs = @ \cup RoundAttributes,
               !.wall = HongKongWall(s),
               !.hands = generateHongKongMahjongHands(HongKongWall(s), connectionIds),
               !.interactionCount = 0,
               !.playedTileInteractions = <<>>]

startNewGameRoundUpdateKeepInteractions(gs, s, connectionIds) ==
    [gs EXCEPT !.attrs = @ \cup RoundAttributes,
               !.currentIndex = getCurrentTileIndexAfterDeal(connectionIds),
               !.wall = HongKongWall(s),
               !.hands = generateHongKongMahjongHands(HongKongWall(s), connectionIds),
               !.interactionCount = 0]

startNewGameRoundUpdate(gs, s, connectionIds) ==
    [gs EXCEPT !.attrs = @ \cup RoundAttributes,
               !.currentIndex = getCurrentTileIndexAfterDeal(connectionIds),
               !.wall = HongKongWall(s),
               !.hands = generateHongKongMahjongHands(HongKongWall(s), connectionIds),
               !.interactionCount = 0,
               !.playedTileInteractions = <<>>]

\* changeDealer: nextDealerIndex = (currentDealerIndex + 1) % 4
nextDealerIndexNoWrap(currentDealerIndex) == currentDealerIndex + 1

nextDealerIndex(currentDealerIndex) == (currentDealerIndex + 1) % 4

\* changeWind: nextWindNum = (currentWindNum + 1) % 4
nextWindNumNoWrap(currentWindNum) == currentWindNum + 1

nextWindNum(currentWindNum) == (currentWindNum + 1) % 4

\* the ConditionExpression ':next < :maxUserCount' of both updates
WithinMaxUserCount(next) == next < DEFAULT_MAX_USERS_IN_GAME

\* startNewGameRound, first await: the conditional update of the round fields;
\* without isDealerChanged the call returns here
StartNewGameRoundUpdate(p, s, isDealerChanged) ==
    /\ proc[p].pc = "idle"
    /\ gameState[GameId].present
    /\ gameState' = [gameState EXCEPT ![GameId] =
            startNewGameRoundUpdate(@, s, Players)]
    /\ hist' = [hist EXCEPT !.lastWrite = "startNewGameRound", !.lastRound =
            [by |-> IF isDealerChanged THEN 0 ELSE p,
             isDealerChanged |-> isDealerChanged,
             dealerBefore |-> gameState[GameId].dealer,
             windBefore |-> gameState[GameId].currentWind,
             indexBefore |-> gameState[GameId].currentIndex,
             failed |-> FALSE]]
    /\ proc' = [proc EXCEPT ![p] =
            IF isDealerChanged THEN [pc |-> "changeDealerGet"] ELSE Idle]
    /\ UNCHANGED <<connections, games, outbox>>

\* the call of process p throws
RoundCallThrows(p) ==
    /\ proc' = [proc EXCEPT ![p] = Idle]
    /\ hist' = [hist EXCEPT !.lastRound.by = p, !.lastRound.failed = TRUE]

\* changeDealer, first await: getGameStateByGameId; without an item the call
\* throws, and an item without dealer gives NaN for the next dealer
ChangeDealerGet(p) ==
    /\ proc[p].pc = "changeDealerGet"
    /\ LET gs == gameState[GameId]
           next == IF Has(gs, "dealer") THEN nextDealerIndex(gs.dealer) ELSE NaN IN
       IF ~gs.present
       THEN RoundCallThrows(p)
       ELSE /\ proc' = [proc EXCEPT ![p] =
                    [pc |-> IF next = 0 THEN "changeWindGet" ELSE "changeDealerUpdate",
                     nextDealerIndex |-> next]]
            /\ hist' = hist
    /\ UNCHANGED <<connections, games, gameState, outbox>>

\* changeWind, first await: getGameStateByGameId; without an item the call
\* throws, and an item without currentWind gives NaN for the next wind
ChangeWindGet(p) ==
    /\ proc[p].pc = "changeWindGet"
    /\ LET gs == gameState[GameId] IN
       IF ~gs.present
       THEN RoundCallThrows(p)
       ELSE /\ proc' = [proc EXCEPT ![p] =
                    [pc |-> "changeWindUpdate",
                     nextDealerIndex |-> proc[p].nextDealerIndex,
                     nextWindNum |-> IF Has(gs, "currentWind")
                                     THEN nextWindNum(gs.currentWind) ELSE NaN]]
            /\ hist' = hist
    /\ UNCHANGED <<connections, games, gameState, outbox>>

\* changeWind, second await: SET currentWind = :nextWindNum; the request is
\* refused for NaN or a failed condition, and the call throws
ChangeWindUpdate(p) ==
    /\ proc[p].pc = "changeWindUpdate"
    /\ IF proc[p].nextWindNum # NaN /\ WithinMaxUserCount(proc[p].nextWindNum)
       THEN /\ gameState' = [gameState EXCEPT
                    ![GameId].present = TRUE,
                    ![GameId].attrs = @ \cup {"currentWind"},
                    ![GameId].currentWind = proc[p].nextWindNum]
            /\ proc' = [proc EXCEPT ![p] =
                    [pc |-> "changeDealerUpdate",
                     nextDealerIndex |-> proc[p].nextDealerIndex]]
            /\ hist' = hist
       ELSE /\ gameState' = gameState
            /\ RoundCallThrows(p)
    /\ UNCHANGED <<connections, games, outbox>>

\* changeDealer, last await: SET dealer = :nextDealerIndex; the request is
\* refused for NaN or a failed condition, and the call throws
ChangeDealerUpdate(p) ==
    /\ proc[p].pc = "changeDealerUpdate"
    /\ IF proc[p].nextDealerIndex # NaN /\ WithinMaxUserCount(proc[p].nextDealerIndex)
       THEN /\ gameState' = [gameState EXCEPT
                    ![GameId].present = TRUE,
                    ![GameId].attrs = @ \cup {"dealer"},
                    ![GameId].dealer = proc[p].nextDealerIndex]
            /\ hist' = [hist EXCEPT !.lastRound.by = p]
       ELSE /\ gameState' = gameState
            /\ hist' = [hist EXCEPT !.lastRound.by = p, !.lastRound.failed = TRUE]
    /\ proc' = [proc EXCEPT ![p] = Idle]
    /\ UNCHANGED <<connections, games, outbox>>

-----------------------------------------------------------------------------
(* SpecRound: a game is started and its rounds are restarted, one call at  *)
(* a time.                                                                 *)

InitRound ==
    /\ connections = <<>>
    /\ games = <<>>
    /\ gameState = [g \in {GameId} |-> NoGameState]
    /\ proc = [p \in {1} |-> Idle]
    /\ outbox = <<>>
    /\ hist = NoHist

\* initGameState: DB.put of the initial game
RoundInitGameState ==
    /\ ~gameState[GameId].present
    /\ \E s \in Shuffles :
          gameState' = [gameState EXCEPT ![GameId] = initGameState(s, Players)]
    /\ hist' = [hist EXCEPT !.lastWrite = "initGameState"]
    /\ UNCHANGED <<connections, games, proc, outbox>>

\* a drawTile call between two restarts; at most MaxRoundDraws tiles are
\* drawn in a round, and as many as two rounds take in all
RoundDrawTileGet ==
    /\ gameState[GameId].currentIndex
          < getCurrentTileIndexAfterDeal(Players) + MaxRoundDraws
    /\ hist.calls < 2 * MaxRoundDraws
    /\ DrawTileGet(1)

RoundStart ==
    \E s \in Shuffles, isDealerChanged \in BOOLEAN :
        StartNewGameRoundUpdate(1, s, isDealerChanged)

NextRound ==
    \/ RoundInitGameState
    \/ RoundDrawTileGet
    \/ DrawTileIncrement(1)
    \/ RoundStart
    \/ ChangeDealerGet(1)
    \/ ChangeWindGet(1)
    \/ ChangeWindUpdate(1)
    \/ ChangeDealerUpdate(1)

SpecRound == InitRound /\ [][NextRound]_vars

\* C7: a startNewGameRound call with isDealerChanged = true that has returned
\* left dealer = (dealer + 1) mod 4, and currentWind advanced by 1 mod 4 exactly
\* when the dealer wrapped from 3 to 0 (dealer 3 -> 0 with the wind advanced,
\* dealer 1 -> 2 with the wind unchanged).
C7_DealerAndWindAfterRound ==
    LET r == hist.lastRound
        gs == gameState[GameId] IN
    (r.by = 1 /\ r.isDealerChanged) =>
        /\ ~r.failed
        /\ gs.dealer = (r.dealerBefore + 1) % 4
        /\ r.dealerBefore = 3 => (gs.dealer = 0 /\ gs.currentWind = (r.windBefore + 1) % 4)
        /\ r.dealerBefore = 1 => (gs.dealer = 2 /\ gs.currentWind = r.windBefore)
        /\ r.dealerBefore # 3 => gs.currentWind = r.windBefore

C7_Witness ==
    /\ hist.lastRound.by = 1
    /\ hist.lastRound.isDealerChanged
    /\ hist.lastRound.dealerBefore = 3
    /\ hist.lastRound.windBefore = 3
    /\ gameState[GameId].dealer = 0
    /\ gameState[GameId].currentWind = 0

\* the tiles of the hands, in dealing order
RECURSIVE DealtTiles(_)
DealtTiles(hands) ==
    IF hands = <<>> THEN <<>>
    ELSE hands[1].hand \o DealtTiles(Tail(hands))

BagOfSeq(seq) ==
    [t \in {seq[i] : i \in DOMAIN seq} |->
        Cardinality({i \in DOMAIN seq : seq[i] = t})]

\* the last write to the GameState was the deal of initGameState or of
\* startNewGameRound
FreshlyDealt ==
    /\ gameState[GameId].present
    /\ hist.lastWrite \in {"initGameState", "startNewGameRound"}

\* C8: after initGameState or startNewGameRound the hands hold exactly the wall
\* positions 0 .. currentIndex-1, in dealing order, one hand per player, and the
\* hands together with the wall from currentIndex on are the 144-tile set.
C8_DealIsExhaustiveAndDisjoint ==
    LET gs == gameState[GameId] IN
    FreshlyDealt =>
        /\ Len(gs.wall) = DEFAULT_WALL_LENGTH
        /\ gs.currentIndex \in 0..DEFAULT_WALL_LENGTH
        /\ DealtTiles(gs.hands) = SubSeq(gs.wall, 1, gs.currentIndex)
        /\ [i \in DOMAIN gs.hands |-> gs.hands[i].connectionId] = Players
        /\ BagOfSeq(DealtTiles(gs.hands))
             (+) BagOfSeq(SubSeq(gs.wall, gs.currentIndex + 1, DEFAULT_WALL_LENGTH))
           = BagOfSeq(InitialTiles)

C8_Witness ==
    /\ FreshlyDealt
    /\ hist.lastWrite = "startNewGameRound"
    /\ hist.lastRound.indexBefore > 4 * DEFAULT_HAND_LENGTH
    /\ gameState[GameId].currentIndex = 4 * DEFAULT_HAND_LENGTH
    /\ gameState[GameId].hands[4].hand =
          SubSeq(gameState[GameId].wall, 3 * DEFAULT_HAND_LENGTH + 1,
                 4 * DEFAULT_HAND_LENGTH)

-----------------------------------------------------------------------------
(* Negotiation over a discarded tile: setPlayedTileInteraction *)

MeldTypes == {"TRIPLET", "CONSECUTIVE", "QUAD"}

\* setPlayedTileInteraction's :playedTileVal
PlayedTile(connectionId, playedTiles, meld, skipInteraction) ==
    [connectionId |-> connectionId, playedTiles |-> playedTiles,
     meldType |-> meld, skipInteraction |-> skipInteraction]

\* a condition that admits interactionCount = :maxUserCount
setPlayedTileInteractionConditionUpTo(gs) ==
    Has(gs, "interactionCount") /\ gs.interactionCount <= DEFAULT_MAX_USERS_IN_GAME

\* its ConditionExpression:
\* attribute_exists(gameId) AND interactionCount < :maxUserCount
setPlayedTileInteractionCondition(gs) ==
    Has(gs, "interactionCount") /\ gs.interactionCount < DEFAULT_MAX_USERS_IN_GAME

\* its UpdateExpression: ADD interactionCount 1,
\* SET playedTileInteractions = list_append(playedTileInteractions, [val])
setPlayedTileInteractionOverwrite(gs, playedTileVal) ==
    [gs EXCEPT !.interactionCount = @ + 1,
               !.playedTileInteractions = <<playedTileVal>>]

setPlayedTileInteractionUpdate(gs, playedTileVal) ==
    [gs EXCEPT !.interactionCount = @ + 1,
               !.playedTileInteractions = Append(@, playedTileVal)]

\* a player's response has reached its handler: the store update is pending
SetPlayedTileInteractionCall(p, meld, skipInteraction) ==
    /\ proc[p].pc = "idle"
    /\ proc' = [proc EXCEPT ![p] =
            [pc |-> "setPlayedTileInteraction",
             playedTileVal |-> PlayedTile(p, <<gameState[GameId].wall[1]>>,
                                          meld, skipInteraction)]]
    /\ UNCHANGED <<connections, games, gameState, outbox, hist>>

\* the conditional update, applied or rejected as a whole
SetPlayedTileInteraction(p) ==
    /\ proc[p].pc = "setPlayedTileInteraction"
    /\ IF setPlayedTileInteractionCondition(gameState[GameId])
       THEN /\ gameState' = [gameState EXCEPT ![GameId] =
                    setPlayedTileInteractionUpdate(@, proc[p].playedTileVal)]
            /\ proc' = [proc EXCEPT ![p].pc = "returned"]
       ELSE /\ gameState' = gameState
            /\ proc' = [proc EXCEPT ![p].pc = "rejected"]
    /\ UNCHANGED <<connections, games, outbox, hist>>

-----------------------------------------------------------------------------
(* SpecInteraction: after a discard by player 1 the other players respond  *)
(* concurrently, each at most once.                                        *)

Interactors == 2..(MaxInteractors + 1)

InitInteraction ==
    /\ connections = <<>>
    /\ games = <<>>
    /\ gameState = [g \in {GameId} |-> initGameState(1, Players)]
    /\ proc = [p \in Interactors |-> Idle]
    /\ outbox = <<>>
    /\ hist = NoHist

InteractionCall ==
    \E p \in Interactors, meld \in MeldTypes, skipInteraction \in BOOLEAN :
        SetPlayedTileInteractionCall(p, meld, skipInteraction)

InteractionUpdate == \E p \in Interactors : SetPlayedTileInteraction(p)

NextInteraction == InteractionCall \/ InteractionUpdate

SpecInteraction == InitInteraction /\ [][NextInteraction]_vars

InteractionsCalled == {p \in Interactors : proc[p].pc # "idle"}

InteractionsReturned == {p \in Interactors : proc[p].pc = "returned"}

\* C2: when N <= 3 setPlayedTileInteraction calls were made concurrently from
\* interactionCount = 0 and an empty list and all of them have completed,
\* interactionCount = N and playedTileInteractions has exactly N entries, one
\* per call, whatever the order in which the updates were applied.
C2_ConcurrentInteractionsAllCounted ==
    LET gs == gameState[GameId]
        N == Cardinality(InteractionsCalled) IN
    (N <= 3 /\ \A p \in InteractionsCalled : proc[p].pc \in {"returned", "rejected"}) =>
        /\ gs.interactionCount = N
        /\ Len(gs.playedTileInteractions) = N
        /\ \A p \in InteractionsCalled :
              /\ proc[p].pc = "returned"
              /\ Cardinality({i \in DOMAIN gs.playedTileInteractions :
                     gs.playedTileInteractions[i] = proc[p].playedTileVal}) = 1

C2_Witness ==
    /\ InteractionsReturned = {2, 3, 4}
    /\ gameState[GameId].interactionCount = 3
    /\ Len(gameState[GameId].playedTileInteractions) = 3
    /\ gameState[GameId].playedTileInteractions[1].connectionId = 4
    /\ gameState[GameId].playedTileInteractions[3].connectionId = 2


-----------------------------------------------------------------------------
(* Lobby: the Connections and Games tables and the calls made on them *)

Conns == 1..MaxConnections

GameIds == 1..MaxGames

\* a connection item without the 'gameId' attribute
NoGameId == 0

NoUser == [present |-> FALSE, gameId |-> NoGameId]

\* saveConnection: the item put on $connect
saveConnection == [present |-> TRUE, gameId |-> NoGameId]

NoGame == [present |-> FALSE, users |-> <<>>, state |-> "CREATED",
           gameLoadedCount |-> 0]

Range(seq) == {seq[i] : i \in DOMAIN seq}

\* the conditions without their test of the gameId attribute
setGameIdForUserConditionExists(user) == user.present

removeGameIdFromUserConditionExists(user) == user.present

\* setGameIdForUser: 'connectionId = :id AND attribute_not_exists(gameId)'
setGameIdForUserCondition(user) == user.present /\ user.gameId = NoGameId

\* removeGameIdFromUser: 'connectionId = :id AND attribute_exists(gameId)'
removeGameIdFromUserCondition(user) == user.present /\ user.gameId # NoGameId

\* createGame: a new item whose only user, the host, is the creator
createGame(creatorConnectionId) ==
    [present |-> TRUE, users |-> <<creatorConnectionId>>, state |-> "CREATED",
     gameLoadedCount |-> 0]

\* addUserToGame: appends only to a game in state CREATED with fewer than
\* four users
addUserToGameUnbounded(game) == game.present /\ game.state = "CREATED"

addUserToGameCondition(game) ==
    /\ game.present
    /\ Len(game.users) < DEFAULT_MAX_USERS_IN_GAME
    /\ game.state = "CREATED"

addUserToGame(game, connectionId) ==
    [game EXCEPT !.users = Append(@, connectionId)]

\* removeUserFromGame: the game without the entry of connectionId
removeUserFromGame(game, connectionId) ==
    [game EXCEPT !.users = SelectSeq(@, LAMBDA u : u # connectionId)]

\* the removed user was the host (index 0), or nobody is left
IsHostOrLast(game, connectionId) ==
    \/ game.users[1] = connectionId
    \/ removeUserFromGame(game, connectionId).users = <<>>

\* deleteGameState: DB.delete of the item keyed by gameId
deleteGameState(gs) == NoGameState

\* getAllGames: the scan behind GET_ALL_GAMES
getAllGames == {g \in DOMAIN games : games[g].present}

InFlight == {c \in DOMAIN proc : proc[c].pc # "idle"}

\* connection c is open and may send its next action.  Connection ids are
\* interchangeable, so they are numbered by the order of their first action
CanSend(c) ==
    /\ connections[c].present
    /\ c <= hist.used + 1
    /\ proc[c].pc = "idle"
    /\ Cardinality(InFlight) < MaxInFlight

\* the number of connections that have sent an action, c included
FirstUse(c) == IF c > hist.used THEN c ELSE hist.used

Step(op, by, gameId, threw) ==
    [op |-> op, by |-> by, gameId |-> gameId,
     usersBefore |-> IF gameId \in DOMAIN games THEN games[gameId].users ELSE <<>>,
     gameStateBefore |-> gameId \in DOMAIN gameState /\ gameState[gameId].present,
     threw |-> threw]



-----------------------------------------------------------------------------
(* The sends of a handler and the responses it builds *)

\* getConnectionIdsExceptCaller
getConnectionIdsWithCaller(callerConnectionId, connectionIds) == connectionIds

getConnectionIdsExceptCaller(callerConnectionId, connectionIds) ==
    SelectSeq(connectionIds, LAMBDA otherConnectionId :
                                 otherConnectionId # callerConnectionId)

\* broadcastInGameMessage: connectionIds.filter(other => other !== caller)
otherConnectionIds(callerConnectionId, connectionIds) ==
    SelectSeq(connectionIds, LAMBDA otherConnectionId :
                                 otherConnectionId # callerConnectionId)

\* getHandByConnectionId: the hand dealt to connectionId
getHandByConnectionId(hands, connectionId) ==
    hands[CHOOSE i \in DOMAIN hands : hands[i].connectionId = connectionId]

\* broadcastGameStart: allSelfPlayedTilesAtStart
allSelfPlayedTilesAtStart(hands) ==
    [i \in DOMAIN hands |-> [connectionId |-> hands[i].connectionId,
                             playedTiles |-> hands[i].playedTiles]]

GameStartPayloadOfFirst(hands, currentIndex, connectionId) ==
    [tiles |-> hands[1].hand,
     selfPlayedTiles |-> allSelfPlayedTilesAtStart(hands),
     currentIndex |-> currentIndex]

\* broadcastGameStart: the payload built inside the map, per recipient
GameStartPayload(hands, currentIndex, connectionId) ==
    [tiles |-> getHandByConnectionId(hands, connectionId).hand,
     selfPlayedTiles |-> allSelfPlayedTilesAtStart(hands),
     currentIndex |-> currentIndex]

\* ws.send(wsResponse, connectionId): the call issued, its promise pending
Send(action, payload, connectionId) ==
    [to |-> connectionId, action |-> action, payload |-> payload,
     status |-> "pending"]

\* the position of the first closed connection of connectionIds, or its length
FirstClosed(connectionIds) ==
    IF \E i \in DOMAIN connectionIds : ~connections[connectionIds[i]].present
    THEN CHOOSE i \in DOMAIN connectionIds :
             /\ ~connections[connectionIds[i]].present
             /\ \A j \in 1..(i - 1) : connections[connectionIds[j]].present
    ELSE Len(connectionIds)

SendEachAwaited(action, payload, connectionIds) ==
    [i \in 1..FirstClosed(connectionIds) |->
        Send(action, payload[connectionIds[i]], connectionIds[i])]

\* connectionIds.map((cid) => ws.send(wsResponse, cid)): map calls ws.send for
\* every element before any of the promises settles
\* (payload is the wsResponse built for each of them)
SendEach(action, payload, connectionIds) ==
    [i \in 1..Len(connectionIds) |->
        Send(action, payload[connectionIds[i]], connectionIds[i])]

\* getAllConnections, then getConnectionIdsFromUsers: the ids of the items of
\* the Connections table
getAllConnectionIds ==
    LET ids[n \in 0..Cardinality(DOMAIN connections)] ==
            IF n = 0 THEN <<>>
            ELSE IF connections[n].present THEN Append(ids[n - 1], n)
                 ELSE ids[n - 1] IN
    ids[Cardinality(DOMAIN connections)]

\* createWSResponse
createWSResponse(action, payload) == [action |-> action, payload |-> payload]

\* an object without fields
EmptyPayload == [field \in {} |-> TRUE]

\* createGameResponse and createJoinGameResponse: the payload holds the game
\* when there is one
createGameResponse(game) ==
    createWSResponse("CREATE_GAME",
                     IF game = NoGameId THEN EmptyPayload ELSE [game |-> game])

createJoinGameResponse(game) ==
    createWSResponse("JOIN_GAME",
                     IF game = NoGameId THEN EmptyPayload ELSE [game |-> game])

\* the response the handler of action builds for game
GameResponse(action, game) ==
    IF action = "CREATE_GAME" THEN createGameResponse(game)
    ELSE createJoinGameResponse(game)

\* successWebSocketResponse: the response with success = true added to its
\* payload
successWebSocketResponseAtTop(webSocketResponse) ==
    [action |-> webSocketResponse.action,
     payload |-> webSocketResponse.payload,
     success |-> TRUE]

successWebSocketResponse(webSocketResponse) ==
    [action |-> webSocketResponse.action,
     payload |-> webSocketResponse.payload @@ [success |-> TRUE]]

\* failedWebSocketResponse: the response with success = false and the error
\* added to its payload
failedWebSocketResponseOfErrorOnly(webSocketResponse, error) ==
    [action |-> webSocketResponse.action,
     payload |-> [success |-> FALSE, error |-> error]]

failedWebSocketResponse(webSocketResponse, error) ==
    [action |-> webSocketResponse.action,
     payload |-> webSocketResponse.payload
                     @@ [success |-> FALSE, error |-> error]]

\* ws.send(successWebSocketResponse(res), connectionId)
SendSuccess(action, connectionId, gameId) ==
    LET wsResponse == successWebSocketResponse(GameResponse(action, gameId)) IN
    Send(wsResponse.action, wsResponse.payload, connectionId)

\* ws.send(failedWebSocketResponse(emptyGameResponse, error), connectionId)
SendFailed(action, connectionId) ==
    LET wsResponse == failedWebSocketResponse(GameResponse(action, NoGameId),
                                              "error") IN
    Send(wsResponse.action, wsResponse.payload, connectionId)

-----------------------------------------------------------------------------
(* CREATE_GAME *)

\* handler of onCreateGame, '!game': failed response, then 400
CreateGameBadRequest(c) ==
    /\ CanSend(c)
    /\ outbox' = <<SendFailed("CREATE_GAME", c)>>
    /\ hist' = [hist EXCEPT !.calls = @ + 1, !.used = FirstUse(c),
                            !.lastStep = NoStep]
    /\ UNCHANGED <<connections, games, gameState, proc>>

\* first await: createGame, under a fresh game id
CreateGame(c) ==
    /\ CanSend(c)
    /\ hist.created < MaxGames
    /\ LET gameId == hist.created + 1 IN
       /\ games' = [games EXCEPT ![gameId] = createGame(c)]
       /\ proc' = [proc EXCEPT ![c] =
               [pc |-> "createGame_setGameIdForUser", gameId |-> gameId]]
       /\ hist' = [hist EXCEPT !.calls = @ + 1, !.used = FirstUse(c), !.created = gameId,
                               !.lastStep = NoStep]
    /\ outbox' = <<>>
    /\ UNCHANGED <<connections, gameState>>

\* second await: setGameIdForUser, then the success response is sent; when
\* the condition of setGameIdForUser fails it throws, and the catch sends the
\* failed response
CreateGameSetGameIdForUser(c) ==
    /\ proc[c].pc = "createGame_setGameIdForUser"
    /\ LET ok == setGameIdForUserCondition(connections[c]) IN
       /\ connections' = IF ok
              THEN [connections EXCEPT ![c].gameId = proc[c].gameId]
              ELSE connections
       /\ proc' = [proc EXCEPT ![c].pc =
               IF ok THEN "createGame_send" ELSE "createGame_catch"]
       /\ outbox' = IF ok
              THEN <<SendSuccess("CREATE_GAME", c, proc[c].gameId)>>
              ELSE <<SendFailed("CREATE_GAME", c)>>
       /\ hist' = [hist EXCEPT !.lastStep =
               NoStep]
    /\ UNCHANGED <<games, gameState>>

\* the success response is sent; getAllConnections scans the Connections
\* table
CreateGameSend(c) ==
    /\ proc[c].pc = "createGame_send"
    /\ proc' = [proc EXCEPT ![c] =
            [pc |-> "createGame_getGameByGameId", gameId |-> proc[c].gameId,
             connectionIds |-> getAllConnectionIds]]
    /\ outbox' = <<>>
    /\ hist' = [hist EXCEPT !.lastStep =
            NoStep]
    /\ UNCHANGED <<connections, games, gameState>>

\* broadcastGameUpdate reads the game and sends GAME_UPDATE to the
\* connections scanned, the caller left out
CreateGameGetGameByGameId(c) ==
    /\ proc[c].pc = "createGame_getGameByGameId"
    /\ LET gameId == proc[c].gameId
           recipients ==
               getConnectionIdsExceptCaller(c, proc[c].connectionIds)
           payload == [game |-> games[gameId], state |-> "CREATED"] IN
       outbox' = IF games[gameId].present
                 THEN SendEach("GAME_UPDATE",
                          [cid \in Range(recipients) |-> payload], recipients)
                 ELSE <<>>
    /\ proc' = [proc EXCEPT ![c] = [pc |-> "createGame_broadcastGameUpdate"]]
    /\ hist' = [hist EXCEPT !.lastStep =
            NoStep]
    /\ UNCHANGED <<connections, games, gameState>>

\* 'await Promise.all(promises)' of broadcastGameUpdate returns, then 200
CreateGameBroadcastJoined(c) ==
    /\ proc[c].pc = "createGame_broadcastGameUpdate"
    /\ proc' = [proc EXCEPT ![c] = Idle]
    /\ outbox' = <<>>
    /\ hist' = [hist EXCEPT !.lastStep =
            NoStep]
    /\ UNCHANGED <<connections, games, gameState>>

\* catch: the failed response is sent, then 500
CreateGameCatch(c) ==
    /\ proc[c].pc = "createGame_catch"
    /\ proc' = [proc EXCEPT ![c] = Idle]
    /\ outbox' = <<>>
    /\ hist' = [hist EXCEPT !.lastStep =
            NoStep]
    /\ UNCHANGED <<connections, games, gameState>>

-----------------------------------------------------------------------------
(* JOIN_GAME *)

\* joinGame, first await: addUserToGame.  A game that is not there gives
\* undefined and the handler returns 200 at once; a full or started game
\* throws, and the catch sends the failed response
JoinGame(c, gameId) ==
    /\ CanSend(c)
    /\ LET game == games[gameId] IN
       IF ~game.present
       THEN /\ UNCHANGED <<games, proc>>
            /\ outbox' = <<>>
            /\ hist' = [hist EXCEPT !.calls = @ + 1, !.used = FirstUse(c), !.lastStep =
                    Step("addUserToGame", c, gameId, FALSE)]
       ELSE LET ok == addUserToGameCondition(game) IN
            /\ games' = IF ok
                   THEN [games EXCEPT ![gameId] = addUserToGame(game, c)]
                   ELSE games
            /\ proc' = [proc EXCEPT ![c] =
                    [pc |-> IF ok THEN "joinGame_setGameIdForUser"
                                  ELSE "joinGame_catch",
                     gameId |-> gameId,
                     users |-> games'[gameId].users]]
            /\ outbox' = IF ok THEN <<>> ELSE <<SendFailed("JOIN_GAME", c)>>
            /\ hist' = [hist EXCEPT !.calls = @ + 1, !.used = FirstUse(c), !.lastStep =
                    Step("addUserToGame", c, gameId, ~ok)]
    /\ UNCHANGED <<connections, gameState>>

\* joinGame, second await: setGameIdForUser, then the success response is
\* sent
JoinGameSetGameIdForUser(c) ==
    /\ proc[c].pc = "joinGame_setGameIdForUser"
    /\ LET ok == setGameIdForUserCondition(connections[c]) IN
       /\ connections' = IF ok
              THEN [connections EXCEPT ![c].gameId = proc[c].gameId]
              ELSE connections
       /\ proc' = [proc EXCEPT ![c].pc =
               IF ok THEN "joinGame_send" ELSE "joinGame_catch"]
       /\ outbox' = IF ok
              THEN <<SendSuccess("JOIN_GAME", c, proc[c].gameId)>>
              ELSE <<SendFailed("JOIN_GAME", c)>>
       /\ hist' = [hist EXCEPT !.lastStep =
               NoStep]
    /\ UNCHANGED <<games, gameState>>

\* the success response is sent; joinGameSendUpdates: broadcastInGameMessage
\* reads the caller's user, 'user.username' throws when there is none,
\* and IN_GAME_MESSAGE is sent to the other users of the game
JoinGameSend(c) ==
    /\ proc[c].pc = "joinGame_send"
    /\ LET recipients == otherConnectionIds(c, proc[c].users)
           payload == [username |-> c, message |-> "joined"] IN
       IF ~connections[c].present
       THEN /\ outbox' = <<SendFailed("JOIN_GAME", c)>>
            /\ proc' = [proc EXCEPT ![c].pc = "joinGame_catch"]
       ELSE /\ outbox' = SendEach("IN_GAME_MESSAGE",
                    [cid \in Range(recipients) |-> payload], recipients)
            /\ proc' = [proc EXCEPT ![c].pc =
                    "joinGame_broadcastInGameMessage"]
    /\ hist' = [hist EXCEPT !.lastStep =
            NoStep]
    /\ UNCHANGED <<connections, games, gameState>>

\* broadcastInGameMessage returns; broadcastInGameUpdate sends the users of
\* the game to the other users
JoinGameInGameMessageJoined(c) ==
    /\ proc[c].pc = "joinGame_broadcastInGameMessage"
    /\ LET usersInGame == proc[c].users
           recipients == getConnectionIdsExceptCaller(c, usersInGame)
           payload == [users |-> usersInGame] IN
       outbox' = SendEach("IN_GAME_UPDATE",
                     [cid \in Range(recipients) |-> payload], recipients)
    /\ proc' = [proc EXCEPT ![c].pc = "joinGame_broadcastInGameUpdate"]
    /\ hist' = [hist EXCEPT !.lastStep =
            NoStep]
    /\ UNCHANGED <<connections, games, gameState>>

\* broadcastInGameUpdate returns, then 200
JoinGameInGameUpdateJoined(c) ==
    /\ proc[c].pc = "joinGame_broadcastInGameUpdate"
    /\ proc' = [proc EXCEPT ![c] = Idle]
    /\ outbox' = <<>>
    /\ hist' = [hist EXCEPT !.lastStep =
            NoStep]
    /\ UNCHANGED <<connections, games, gameState>>

\* catch: the failed response is sent, then 500
JoinGameCatch(c) ==
    /\ proc[c].pc = "joinGame_catch"
    /\ proc' = [proc EXCEPT ![c] = Idle]
    /\ outbox' = <<>>
    /\ hist' = [hist EXCEPT !.lastStep =
            NoStep]
    /\ UNCHANGED <<connections, games, gameState>>

-----------------------------------------------------------------------------
(* LEAVE_GAME and $disconnect: removal of a user from a game *)

\* LEAVE_GAME, first await: removeUserFromGame
LeaveGame(c, gameId) ==
    /\ CanSend(c)
    /\ games[gameId].present
    /\ c \in Range(games[gameId].users)
    /\ games' = [games EXCEPT ![gameId] = removeUserFromGame(@, c)]
    /\ proc' = [proc EXCEPT ![c] =
            [pc |-> IF IsHostOrLast(games[gameId], c)
                    THEN "deleteGame" ELSE "removeGameIdFromUser",
             gameId |-> gameId, action |-> "LEAVE_GAME",
             deletes |-> IsHostOrLast(games[gameId], c)]]
    /\ hist' = [hist EXCEPT !.calls = @ + 1, !.used = FirstUse(c), !.lastStep =
            Step("removeUserFromGame", c, gameId, FALSE)]
    /\ outbox' = <<>>
    /\ UNCHANGED <<connections, gameState>>

\* $disconnect, first await: deleteConnection, which returns the old item
Disconnect(c) ==
    /\ CanSend(c)
    /\ connections' = [connections EXCEPT ![c] = NoUser]
    /\ proc' = [proc EXCEPT ![c] =
            IF connections[c].gameId # NoGameId
            THEN [pc |-> "disconnect_removeUserFromGame",
                  gameId |-> connections[c].gameId]
            ELSE Idle]
    /\ hist' = [hist EXCEPT !.calls = @ + 1, !.used = FirstUse(c), !.lastStep =
            NoStep]
    /\ outbox' = <<>>
    /\ UNCHANGED <<games, gameState>>

\* $disconnect: removeUserFromGame on the game the connection referred to
DisconnectRemoveUserFromGame(c) ==
    /\ proc[c].pc = "disconnect_removeUserFromGame"
    /\ LET gameId == proc[c].gameId
           found == games[gameId].present /\ c \in Range(games[gameId].users)
           deletes == found /\ IsHostOrLast(games[gameId], c) IN
       /\ games' = IF found
              THEN [games EXCEPT ![gameId] = removeUserFromGame(@, c)]
              ELSE games
       /\ proc' = [proc EXCEPT ![c] =
               IF deletes
               THEN [pc |-> "deleteGame", gameId |-> gameId,
                     action |-> "DISCONNECT", deletes |-> TRUE]
               ELSE Idle]
       /\ hist' = [hist EXCEPT !.lastStep =
               IF found THEN Step("removeUserFromGame", c, gameId, FALSE)
                        ELSE NoStep]
    /\ outbox' = <<>>
    /\ UNCHANGED <<connections, gameState>>

\* the host left: deleteGame
DeleteGame(c) ==
    /\ proc[c].pc = "deleteGame"
    /\ games' = [games EXCEPT ![proc[c].gameId] = NoGame]
    /\ proc' = [proc EXCEPT ![c].pc = "deleteGameState"]
    /\ hist' = [hist EXCEPT !.lastStep =
            NoStep]
    /\ outbox' = <<>>
    /\ UNCHANGED <<connections, gameState>>

\* the host left: deleteGameState, the last call of $disconnect
DeleteGameState(c) ==
    /\ proc[c].pc = "deleteGameState"
    /\ gameState' = [gameState EXCEPT ![proc[c].gameId] = deleteGameState(@)]
    /\ proc' = [proc EXCEPT ![c] =
            IF proc[c].action = "LEAVE_GAME"
            THEN [proc[c] EXCEPT !.pc = "removeGameIdFromUser"]
            ELSE Idle]
    /\ hist' = [hist EXCEPT
            !.lastStep = Step("deleteGameState", c, proc[c].gameId, FALSE),
            !.hostRemoved = IF proc[c].action = "LEAVE_GAME"
                            THEN @ ELSE @ \cup {proc[c].gameId}]
    /\ outbox' = <<>>
    /\ UNCHANGED <<connections, games>>

\* LEAVE_GAME, last await: removeGameIdFromUser, then the response
LeaveGameRemoveGameIdFromUser(c) ==
    /\ proc[c].pc = "removeGameIdFromUser"
    /\ LET ok == removeGameIdFromUserCondition(connections[c]) IN
       /\ connections' = IF ok
              THEN [connections EXCEPT ![c].gameId = NoGameId]
              ELSE connections
       /\ hist' = [hist EXCEPT
               !.lastStep = NoStep,
               !.hostRemoved = IF proc[c].deletes
                               THEN @ \cup {proc[c].gameId} ELSE @]
    /\ proc' = [proc EXCEPT ![c] = Idle]
    /\ outbox' = <<>>
    /\ UNCHANGED <<games, gameState>>

-----------------------------------------------------------------------------
(* START_GAME and GAME_PAGE_LOAD *)

\* START_GAME: a game of four users starts
StartGame(c, gameId) ==
    /\ CanSend(c)
    /\ games[gameId].present
    /\ games[gameId].state = "CREATED"
    /\ c \in Range(games[gameId].users)
    /\ Len(games[gameId].users) = DEFAULT_MAX_USERS_IN_GAME
    /\ games' = [games EXCEPT ![gameId].state = "STARTED"]
    /\ hist' = [hist EXCEPT !.calls = @ + 1, !.used = FirstUse(c), !.lastStep = NoStep]
    /\ outbox' = <<>>
    /\ UNCHANGED <<connections, gameState, proc>>

\* incrementGameLoadedCount: one update that adds 1 and returns the new game
incrementGameLoadedCount(game) == [game EXCEPT !.gameLoadedCount = @ + 1]

\* the game starts for the handler whose increment made the count 4
gameStartGateAtLeast(gameLoadedCount) ==
    gameLoadedCount >= DEFAULT_MAX_USERS_IN_GAME

gameStartGate(gameLoadedCount) == gameLoadedCount = DEFAULT_MAX_USERS_IN_GAME

\* GAME_PAGE_LOAD, first await: the loaded page is counted by one update,
\* which returns the game with its new count
GamePageLoad(c, gameId) ==
    /\ CanSend(c)
    /\ games[gameId].present
    /\ games[gameId].state = "STARTED"
    /\ c \in Range(games[gameId].users)
    /\ games' = [games EXCEPT ![gameId] = incrementGameLoadedCount(@)]
    /\ proc' = [proc EXCEPT ![c] =
            [pc |-> "gamePageLoad_loaded", gameId |-> gameId,
             gameLoadedCount |-> games'[gameId].gameLoadedCount,
             users |-> games'[gameId].users]]
    /\ hist' = [hist EXCEPT !.calls = @ + 1, !.used = FirstUse(c), !.lastStep = NoStep]
    /\ outbox' = <<>>
    /\ UNCHANGED <<connections, gameState>>

\* GAME_PAGE_LOAD, after the count: the handler that counted the fourth page
\* calls broadcastGameStart with startNewGame true, whose first await puts
\* the game state of initGameState, whatever the table holds by then;
\* GAME_START is then sent to the users of the game
GamePageLoadGameStart(c, s) ==
    /\ proc[c].pc = "gamePageLoad_loaded"
    /\ LET gameId == proc[c].gameId
           connectionIds == proc[c].users
           newGameState == initGameState(s, connectionIds) IN
       IF gameStartGate(proc[c].gameLoadedCount)
       THEN /\ gameState' = [gameState EXCEPT ![gameId] = newGameState]
            /\ outbox' = SendEach("GAME_START",
                   [cid \in Range(connectionIds) |->
                       GameStartPayload(newGameState.hands,
                                        newGameState.currentIndex, cid)],
                   connectionIds)
            /\ proc' = [proc EXCEPT ![c] =
                    [pc |-> "gamePageLoad_broadcastGameStart"]]
            /\ hist' = [hist EXCEPT !.lastWrite = "initGameState",
                    !.lastStep = Step("initGameState", c, gameId, FALSE)]
       ELSE /\ gameState' = gameState
            /\ outbox' = <<>>
            /\ proc' = [proc EXCEPT ![c] = Idle]
            /\ hist' = [hist EXCEPT !.lastStep = NoStep]
    /\ UNCHANGED <<connections, games>>

\* 'await Promise.all(promises)' of broadcastGameStart returns, and so does
\* the handler
GamePageLoadJoined(c) ==
    /\ proc[c].pc = "gamePageLoad_broadcastGameStart"
    /\ proc' = [proc EXCEPT ![c] = Idle]
    /\ outbox' = <<>>
    /\ hist' = [hist EXCEPT !.lastStep = NoStep]
    /\ UNCHANGED <<connections, games, gameState>>

-----------------------------------------------------------------------------
(* DRAW_TILE and GET_ALL_GAMES in the lobby *)

\* DRAW_TILE of a connection of game gameId: drawTile, first await, the read
\* of the game state.  At the end of the wall drawTile returns the empty
\* signal; without an item, or without a wall, the read throws
LobbyDrawTileGet(c, gameId) ==
    /\ CanSend(c)
    /\ connections[c].gameId = gameId
    /\ LET gs == gameState[gameId] IN
       proc' = IF (Has(gs, "currentIndex") /\ WallExhausted(gs.currentIndex))
                     \/ ~Has(gs, "wall")
               THEN proc
               ELSE [proc EXCEPT ![c] =
                        [pc |-> "drawTile_increment", gameId |-> gameId,
                         readIndex |-> gs.currentIndex,
                         tileDrawn |-> IF Has(gs, "currentIndex")
                                       THEN TileAt(gs.wall, gs.currentIndex)
                                       ELSE NoTile]]
    /\ hist' = [hist EXCEPT !.calls = @ + 1, !.used = FirstUse(c), !.lastStep = NoStep]
    /\ outbox' = <<>>
    /\ UNCHANGED <<connections, games, gameState>>

\* drawTile, second await: incrementCurrentTileIndex
LobbyDrawTileIncrement(c) ==
    /\ proc[c].pc = "drawTile_increment"
    /\ gameState' = [gameState EXCEPT ![proc[c].gameId] =
                         incrementCurrentTileIndex(@)]
    /\ proc' = [proc EXCEPT ![c] = Idle]
    /\ hist' = [hist EXCEPT
            !.lastWrite = "incrementCurrentTileIndex",
            !.lastStep = Step("incrementCurrentTileIndex", c, proc[c].gameId,
                              FALSE)]
    /\ outbox' = <<>>
    /\ UNCHANGED <<connections, games>>

\* GET_ALL_GAMES: broadcastGames scans the Games table and sends the games
\* found to the connection that asked
BroadcastGames(c) ==
    /\ CanSend(c)
    /\ outbox' = <<Send("GET_ALL_GAMES", [games |-> getAllGames], c)>>
    /\ proc' = [proc EXCEPT ![c] = [pc |-> "broadcastGames"]]
    /\ hist' = [hist EXCEPT !.calls = @ + 1, !.used = FirstUse(c),
                            !.lastStep = Step("getAllGames", c, 0, FALSE)]
    /\ UNCHANGED <<connections, games, gameState>>

\* 'await ws.send(wsResponse, connectionId)' of broadcastGames returns
BroadcastGamesSent(c) ==
    /\ proc[c].pc = "broadcastGames"
    /\ proc' = [proc EXCEPT ![c] = Idle]
    /\ outbox' = <<>>
    /\ hist' = [hist EXCEPT !.lastStep = NoStep]
    /\ UNCHANGED <<connections, games, gameState>>

-----------------------------------------------------------------------------
(* SpecLobby: the connected clients create, join, start and leave games *)

InitLobby ==
    /\ connections = [c \in Conns |-> saveConnection]
    /\ games = [g \in GameIds |-> NoGame]
    /\ gameState = [g \in GameIds |-> NoGameState]
    /\ proc = [c \in Conns |-> Idle]
    /\ outbox = <<>>
    /\ hist = NoHist

LobbyCreateGameBadRequest == \E c \in Conns : CreateGameBadRequest(c)

LobbyCreateGame == \E c \in Conns : CreateGame(c)

LobbyCreateGameSetGameIdForUser == \E c \in Conns : CreateGameSetGameIdForUser(c)

LobbyCreateGameSend == \E c \in Conns : CreateGameSend(c)

LobbyCreateGameGetGameByGameId ==
    \E c \in Conns : CreateGameGetGameByGameId(c)

LobbyCreateGameBroadcastJoined ==
    \E c \in Conns : CreateGameBroadcastJoined(c)

LobbyCreateGameCatch == \E c \in Conns : CreateGameCatch(c)

LobbyJoinGame == \E c \in Conns, g \in GameIds : JoinGame(c, g)

LobbyJoinGameSetGameIdForUser == \E c \in Conns : JoinGameSetGameIdForUser(c)

LobbyJoinGameSend == \E c \in Conns : JoinGameSend(c)

LobbyJoinGameInGameMessageJoined ==
    \E c \in Conns : JoinGameInGameMessageJoined(c)

LobbyJoinGameInGameUpdateJoined ==
    \E c \in Conns : JoinGameInGameUpdateJoined(c)

LobbyJoinGameCatch == \E c \in Conns : JoinGameCatch(c)

LobbyLeaveGame == \E c \in Conns, g \in GameIds : LeaveGame(c, g)

LobbyDisconnect == \E c \in Conns : Disconnect(c)

LobbyDisconnectRemoveUserFromGame ==
    \E c \in Conns : DisconnectRemoveUserFromGame(c)

LobbyDeleteGame == \E c \in Conns : DeleteGame(c)

LobbyDeleteGameState == \E c \in Conns : DeleteGameState(c)

LobbyLeaveGameRemoveGameIdFromUser ==
    \E c \in Conns : LeaveGameRemoveGameIdFromUser(c)

LobbyStartGame == \E c \in Conns, g \in GameIds : StartGame(c, g)

LobbyGamePageLoad == \E c \in Conns, g \in GameIds : GamePageLoad(c, g)

LobbyGamePageLoadGameStart ==
    \E c \in Conns, s \in Shuffles : GamePageLoadGameStart(c, s)

LobbyGamePageLoadJoined == \E c \in Conns : GamePageLoadJoined(c)

LobbyDrawGet == \E c \in Conns, g \in GameIds : LobbyDrawTileGet(c, g)

LobbyDrawIncrement == \E c \in Conns : LobbyDrawTileIncrement(c)

LobbyBroadcastGames == \E c \in Conns : BroadcastGames(c)

LobbyBroadcastGamesSent == \E c \in Conns : BroadcastGamesSent(c)

\* the clients send MaxLobbyCalls actions in all
MayCall == hist.calls < MaxLobbyCalls

\* a game of the empty lobby is created, joined three times and started
\* before a page is counted: within MaxLobbyCalls no game counts four pages,
\* and the join of broadcastGameStart is a step of SpecStartedLobby only

NextLobby ==
    \/ MayCall /\ LobbyCreateGameBadRequest
    \/ MayCall /\ LobbyCreateGame
    \/ MayCall /\ LobbyJoinGame
    \/ MayCall /\ LobbyLeaveGame
    \/ MayCall /\ LobbyDisconnect
    \/ MayCall /\ LobbyStartGame
    \/ MayCall /\ LobbyGamePageLoad
    \/ LobbyCreateGameSetGameIdForUser
    \/ LobbyCreateGameSend
    \/ LobbyCreateGameGetGameByGameId
    \/ LobbyCreateGameBroadcastJoined
    \/ LobbyCreateGameCatch
    \/ LobbyJoinGameSetGameIdForUser
    \/ LobbyJoinGameSend
    \/ LobbyJoinGameInGameMessageJoined
    \/ LobbyJoinGameInGameUpdateJoined
    \/ LobbyJoinGameCatch
    \/ LobbyDisconnectRemoveUserFromGame
    \/ LobbyDeleteGame
    \/ LobbyDeleteGameState
    \/ LobbyLeaveGameRemoveGameIdFromUser
    \/ LobbyGamePageLoadGameStart

SpecLobby == InitLobby /\ [][NextLobby]_vars

\* C4: after any sequence of JOIN_GAME actions, concurrent ones included, the
\* users list of every game has at most 4 entries; a join attempted on a game
\* that already has 4 users fails (addUserToGame throws, the handler goes to
\* its catch and the failed response) and leaves users unchanged.
C4_UsersNeverExceedFour ==
    /\ \A g \in GameIds : Len(games[g].users) <= 4
    /\ LET s == hist.lastStep IN
       (s.op = "addUserToGame" /\ Len(s.usersBefore) >= 4)
           => /\ s.threw
              /\ games[s.gameId].users = s.usersBefore
              /\ proc[s.by].pc = "joinGame_catch"

\* a fifth connection has just been refused by a game of four, while the
\* handler of another connection is in flight
C4_Witness ==
    /\ hist.lastStep.op = "addUserToGame"
    /\ Len(hist.lastStep.usersBefore) = 4
    /\ hist.lastStep.threw
    /\ games[hist.lastStep.gameId].users = hist.lastStep.usersBefore
    /\ hist.lastStep.by \notin Range(hist.lastStep.usersBefore)
    /\ Cardinality(InFlight) = 2

\* the existing games that list connection c among their users (the host is
\* the first of them)
GamesOf(c) == {g \in getAllGames : c \in Range(games[g].users)}

\* C5: after any sequence of CREATE_GAME, JOIN_GAME and LEAVE_GAME actions
\* (every handler has returned), no connection is the host or a member of two
\* different existing games.
C5_AtMostOneGamePerConnection ==
    InFlight = {} => \A c \in Conns : Cardinality(GamesOf(c)) <= 1

\* a lobby in which four connections have filled game 1, started or about to
InitStartedLobby ==
    /\ connections = [c \in Conns |->
            IF c <= DEFAULT_MAX_USERS_IN_GAME
            THEN [saveConnection EXCEPT !.gameId = 1] ELSE saveConnection]
    /\ \E started \in BOOLEAN :
          games = [g \in GameIds |->
              IF g = 1
              THEN [createGame(1) EXCEPT
                       !.users = Players,
                       !.state = IF started THEN "STARTED" ELSE "CREATED",
                       !.gameLoadedCount = IF started THEN 3 ELSE 0]
              ELSE NoGame]
    /\ gameState = [g \in GameIds |-> NoGameState]
    /\ proc = [c \in Conns |-> Idle]
    /\ outbox = <<>>
    /\ hist = [NoHist EXCEPT !.created = 1, !.used = DEFAULT_MAX_USERS_IN_GAME]

\* the clients of the started lobby send MaxRemovalCalls actions in all
MayCallStarted == hist.calls < MaxRemovalCalls

NextStartedLobby ==
    \/ MayCallStarted /\ LobbyCreateGameBadRequest
    \/ MayCallStarted /\ LobbyCreateGame
    \/ MayCallStarted /\ LobbyJoinGame
    \/ MayCallStarted /\ LobbyLeaveGame
    \/ MayCallStarted /\ LobbyDisconnect
    \/ MayCallStarted /\ LobbyStartGame
    \/ MayCallStarted /\ LobbyGamePageLoad
    \/ LobbyCreateGameSetGameIdForUser
    \/ LobbyCreateGameSend
    \/ LobbyCreateGameGetGameByGameId
    \/ LobbyCreateGameBroadcastJoined
    \/ LobbyCreateGameCatch
    \/ LobbyJoinGameSetGameIdForUser
    \/ LobbyJoinGameSend
    \/ LobbyJoinGameInGameMessageJoined
    \/ LobbyJoinGameInGameUpdateJoined
    \/ LobbyJoinGameCatch
    \/ LobbyDisconnectRemoveUserFromGame
    \/ LobbyDeleteGame
    \/ LobbyDeleteGameState
    \/ LobbyLeaveGameRemoveGameIdFromUser
    \/ LobbyGamePageLoadGameStart
    \/ LobbyGamePageLoadJoined
    \/ MayCallStarted /\ LobbyDrawGet
    \/ LobbyDrawIncrement
    \/ MayCallStarted /\ LobbyBroadcastGames
    \/ LobbyBroadcastGamesSent

SpecStartedLobby == InitStartedLobby /\ [][NextStartedLobby]_vars




\* the removal of a user who is not the host, as C3 states it
NonHostRemovalKeepsGame ==
    LET s == hist.lastStep IN
    (s.op = "removeUserFromGame" /\ s.usersBefore[1] # s.by)
        => /\ games[s.gameId].present
           /\ games[s.gameId].users =
                  SelectSeq(s.usersBefore, LAMBDA u : u # s.by)
           /\ gameState[s.gameId].present = s.gameStateBefore
           /\ proc[s.by].pc \notin {"deleteGame", "deleteGameState"}

\* C3: once the handler that removed the host of a game (LEAVE_GAME or
\* $disconnect) has returned, the Game record and its GameState record are
\* gone and the game is in no later GET_ALL_GAMES result; the removal of a
\* user who is not the host leaves the Game in place with only that user taken
\* out of users, leaves the GameState as it was, and its handler deletes
\* neither.
C3_HostRemovalDeletesGameAndState ==
    /\ \A g \in hist.hostRemoved :
          /\ ~games[g].present
          /\ ~gameState[g].present
          /\ \A i \in DOMAIN outbox :
                outbox[i].action = "GET_ALL_GAMES"
                    => g \notin outbox[i].payload.games
    /\ NonHostRemovalKeepsGame

\* what does hold of C3: the Game record is gone and in no later GET_ALL_GAMES
\* result, and the removal of a user who is not the host is as stated
HostRemovalDeletesGame ==
    /\ \A g \in hist.hostRemoved :
          /\ ~games[g].present
          /\ \A i \in DOMAIN outbox :
                outbox[i].action = "GET_ALL_GAMES"
                    => g \notin outbox[i].payload.games
    /\ NonHostRemovalKeepsGame

\* does not hold: a GameState found after the host was removed would hold a
\* wall, none being the item that incrementCurrentTileIndex leaves on a key
\* without an item
NoStateFromIncrementAfterHostRemoval ==
    \A g \in hist.hostRemoved :
        gameState[g].present => Has(gameState[g], "wall")

\* does not hold: a GameState found after the host was removed would not be
\* one that initGameState put
NoStateFromInitAfterHostRemoval ==
    \A g \in hist.hostRemoved :
        gameState[g].present => ~Has(gameState[g], "wall")




-----------------------------------------------------------------------------
(* Broadcasts: the fan-out of one message per recipient *)

\* WebSocketClient.send settles: a send to a closed connection fails, the
\* client catches the failure, and the promise of the send is fulfilled
\* either way
SettledStatus(connectionId) ==
    IF connections[connectionId].present THEN "sent" ELSE "failed"

\* Promise.all(promises) rejects with the first rejection and resolves when
\* every promise is fulfilled
PromiseAllRejectedOnFailed ==
    \E i \in DOMAIN outbox : outbox[i].status \in {"rejected", "failed"}

PromiseAllRejected == \E i \in DOMAIN outbox : outbox[i].status = "rejected"

\* a join that is over as soon as one promise is fulfilled
PromiseAllResolvedAny ==
    \E i \in DOMAIN outbox : outbox[i].status \in {"sent", "failed"}

PromiseAllResolved ==
    \A i \in DOMAIN outbox : outbox[i].status \in {"sent", "failed"}

AllSettled == \A i \in DOMAIN outbox : outbox[i].status # "pending"

\* the caller of the broadcast functions
Broadcaster == "handler"

\* a broadcast function is entered: no handler awaits another broadcast
CanBroadcast == proc[Broadcaster].pc = "idle" /\ AllSettled

\* the sends are issued and the function awaits Promise.all
FanOutFrom(fn, sends, recipients, args) ==
    /\ outbox' = sends
    /\ proc' = [proc EXCEPT ![Broadcaster] = [pc |-> "promiseAll"]]
    /\ hist' = [hist EXCEPT !.broadcast =
            [fn |-> fn, recipients |-> recipients, threw |-> FALSE,
             rejected |-> FALSE, args |-> args]]

FanOut(fn, sends, recipients) == FanOutFrom(fn, sends, recipients, NoArgs)

\* the function returns or throws before any send
NoFanOutFrom(fn, threw, args) ==
    /\ outbox' = <<>>
    /\ proc' = proc
    /\ hist' = [hist EXCEPT !.broadcast =
            [fn |-> fn, recipients |-> <<>>, threw |-> threw,
             rejected |-> FALSE, args |-> args]]

NoFanOut(fn, threw) == NoFanOutFrom(fn, threw, NoArgs)



\* broadcastGameUpdate: getGameByGameId, then the update to every connection
\* but the caller, or to all of them
BroadcastGameUpdate(gameId, state, callerConnectionId, allConnectionIds, sendToAll) ==
    /\ CanBroadcast
    /\ IF gameId \in DOMAIN games /\ games[gameId].present
       THEN LET recipients ==
                    IF sendToAll THEN allConnectionIds
                    ELSE getConnectionIdsExceptCaller(callerConnectionId,
                                                      allConnectionIds)
                payload == [game |-> games[gameId], state |-> state] IN
            FanOutFrom("broadcastGameUpdate",
                       SendEach("GAME_UPDATE",
                                [cid \in Range(recipients) |-> payload],
                                recipients),
                       recipients,
                       [gameId |-> gameId,
                        callerConnectionId |-> callerConnectionId,
                        connectionIds |-> allConnectionIds,
                        sendToAll |-> sendToAll,
                        gameState |-> NoGameState])
       ELSE NoFanOutFrom("broadcastGameUpdate", FALSE,
                         [gameId |-> gameId,
                          callerConnectionId |-> callerConnectionId,
                          connectionIds |-> allConnectionIds,
                          sendToAll |-> sendToAll,
                        gameState |-> NoGameState])
    /\ UNCHANGED <<connections, games, gameState>>

\* broadcastInGameMessage: without a username it reads the caller's user, and
\* 'user.username' throws when there is none
BroadcastInGameMessage(callerConnectionId, action, connectionIds, callerUsername) ==
    /\ CanBroadcast
    /\ IF ~callerUsername /\ ~connections[callerConnectionId].present
       THEN NoFanOutFrom("broadcastInGameMessage", TRUE,
                         [NoArgs EXCEPT
                             !.callerConnectionId = callerConnectionId,
                             !.connectionIds = connectionIds])
       ELSE LET recipients ==
                    otherConnectionIds(callerConnectionId, connectionIds)
                payload == [username |-> callerConnectionId,
                            message |-> IF action = "JOIN_GAME"
                                        THEN "joined" ELSE "left"] IN
            FanOutFrom("broadcastInGameMessage",
                       SendEach("IN_GAME_MESSAGE",
                                [cid \in Range(recipients) |-> payload],
                                recipients),
                       recipients,
                       [NoArgs EXCEPT
                           !.callerConnectionId = callerConnectionId,
                           !.connectionIds = connectionIds])
    /\ UNCHANGED <<connections, games, gameState>>

\* broadcastInGameUpdate
BroadcastInGameUpdate(callerConnectionId, usersInGame) ==
    /\ CanBroadcast
    /\ LET recipients ==
               getConnectionIdsExceptCaller(callerConnectionId, usersInGame)
           payload == [users |-> usersInGame] IN
       FanOutFrom("broadcastInGameUpdate",
                  SendEach("IN_GAME_UPDATE",
                           [cid \in Range(recipients) |-> payload],
                           recipients),
                  recipients,
                  [NoArgs EXCEPT !.callerConnectionId = callerConnectionId,
                                 !.connectionIds = usersInGame])
    /\ UNCHANGED <<connections, games, gameState>>

\* broadcastGameStart: a new game is dealt by initGameState, otherwise the
\* game state passed in is used, whatever the table holds; without one
\* (NoGameState stands for undefined) the function throws, and so does the
\* reading of the hands of a game state that has none
BroadcastGameStart(connectionIds, startNewGame, s, gameStateArg) ==
    /\ CanBroadcast
    /\ LET newGameState == initGameState(s, connectionIds)
           gs == IF startNewGame THEN newGameState ELSE gameStateArg IN
       IF startNewGame \/ Has(gameStateArg, "hands")
       THEN /\ gameState' = IF startNewGame
                   THEN [gameState EXCEPT ![GameId] = newGameState]
                   ELSE gameState
            /\ FanOutFrom("broadcastGameStart",
                          SendEach("GAME_START",
                                   [cid \in Range(connectionIds) |->
                                       GameStartPayload(gs.hands, gs.currentIndex,
                                                        cid)],
                                   connectionIds),
                          connectionIds,
                          [NoArgs EXCEPT !.connectionIds = connectionIds,
                                         !.gameState = gs])
       ELSE /\ gameState' = gameState
            /\ NoFanOut("broadcastGameStart", TRUE)
    /\ UNCHANGED <<connections, games>>

\* broadcastGameReset: broadcastGameStart with startNewGame false and the
\* game state passed in
BroadcastGameReset(connectionIds, gameStateArg) ==
    BroadcastGameStart(connectionIds, FALSE, 1, gameStateArg)

\* broadcastDrawRound
BroadcastDrawRound(connectionId, connectionIds) ==
    /\ CanBroadcast
    /\ LET payload == [gameId |-> GameId, connectionId |-> connectionId] IN
       FanOut("broadcastDrawRound",
              SendEach("DRAW_ROUND",
                       [cid \in Range(connectionIds) |-> payload],
                       connectionIds),
              connectionIds)
    /\ UNCHANGED <<connections, games, gameState>>

\* broadcastUpdateGameState
BroadcastUpdateGameState(connectionIds, dealer, wind) ==
    /\ CanBroadcast
    /\ LET payload == [dealer |-> dealer, wind |-> wind] IN
       FanOut("broadcastUpdateGameState",
              SendEach("UPDATE_GAME_STATE",
                       [cid \in Range(connectionIds) |-> payload],
                       connectionIds),
              connectionIds)
    /\ UNCHANGED <<connections, games, gameState>>

\* broadcastPlayedTileToUsers
BroadcastPlayedTileToUsers(tile, callerConnectionId, connectionIds) ==
    /\ CanBroadcast
    /\ LET payload == [connectionId |-> callerConnectionId, tile |-> tile] IN
       FanOut("broadcastPlayedTileToUsers",
              SendEach("PLAY_TILE",
                       [cid \in Range(connectionIds) |-> payload],
                       connectionIds),
              connectionIds)
    /\ UNCHANGED <<connections, games, gameState>>

\* broadcastWinningTiles
BroadcastWinningTiles(connectionIds, connectionId, handPointResults) ==
    /\ CanBroadcast
    /\ LET payload == [connectionId |-> connectionId,
                       handPointResults |-> handPointResults] IN
       FanOut("broadcastWinningTiles",
              SendEach("WINNING_TILES",
                       [cid \in Range(connectionIds) |-> payload],
                       connectionIds),
              connectionIds)
    /\ UNCHANGED <<connections, games, gameState>>

\* broadcastSelfPlayTile
BroadcastSelfPlayTile(connectionIds, payload) ==
    /\ CanBroadcast
    /\ FanOut("broadcastSelfPlayTile",
              SendEach("SELF_PLAY_TILE",
                       [cid \in Range(connectionIds) |-> payload],
                       connectionIds),
              connectionIds)
    /\ UNCHANGED <<connections, games, gameState>>

\* the promise of the i-th send settles
SettleSend(i) ==
    /\ outbox[i].status = "pending"
    /\ outbox' = [outbox EXCEPT ![i].status = SettledStatus(outbox[i].to)]
    /\ UNCHANGED <<connections, games, gameState, proc, hist>>

\* 'await Promise.all(promises)' returns, or throws the first rejection
PromiseAllSettles ==
    /\ proc[Broadcaster].pc = "promiseAll"
    /\ PromiseAllRejected \/ PromiseAllResolved
    /\ proc' = [proc EXCEPT ![Broadcaster] = Idle]
    /\ hist' = [hist EXCEPT !.broadcast.rejected = PromiseAllRejected]
    /\ UNCHANGED <<connections, games, gameState, outbox>>

\* a client goes away and $disconnect deletes its connection item whole,
\* its gameId with it, while the game still lists it among its users
CloseConnection(c) ==
    /\ connections[c].present
    /\ connections' = [connections EXCEPT ![c] = NoUser]
    /\ UNCHANGED <<games, gameState, proc, outbox, hist>>



-----------------------------------------------------------------------------
(* SpecBroadcast: a handler of a started game calls the broadcast functions, *)
(* one after the other, while clients go away                               *)

InitBroadcast ==
    /\ connections = [c \in Range(Players) |->
                          [saveConnection EXCEPT !.gameId = GameId]]
    /\ games = [g \in {GameId} |->
                   [createGame(Players[1]) EXCEPT !.users = Players,
                                                  !.state = "STARTED"]]
    /\ gameState = [g \in {GameId} |-> NoGameState]
    /\ proc = [b \in {Broadcaster} |-> Idle]
    /\ outbox = <<>>
    /\ hist = NoHist

\* the connection lists the handlers pass: those of all connections, of the
\* users of a game the actor has left, of a game with two users
ConnectionLists == {Players, <<2, 3, 4>>, <<3, 1>>}

GameUpdate ==
    \E gameId \in {GameId, "none"}, callerConnectionId \in Range(Players),
       allConnectionIds \in ConnectionLists, sendToAll \in BOOLEAN :
        BroadcastGameUpdate(gameId, "CREATED", callerConnectionId,
                            allConnectionIds, sendToAll)

InGameMessage ==
    \E callerConnectionId \in Range(Players),
       action \in {"JOIN_GAME", "LEAVE_GAME"},
       connectionIds \in ConnectionLists, callerUsername \in BOOLEAN :
        BroadcastInGameMessage(callerConnectionId, action, connectionIds,
                               callerUsername)

InGameUpdate ==
    \E callerConnectionId \in Range(Players),
       usersInGame \in ConnectionLists :
        BroadcastInGameUpdate(callerConnectionId, usersInGame)

GameStart ==
    \E s \in Shuffles : BroadcastGameStart(Players, TRUE, s, NoGameState)

\* the game states handed to broadcastGameReset: none, or one that
\* startNewGameRound returned, which need not be the one stored by now
GameStateArguments ==
    {NoGameState} \cup {initGameState(s, Players) : s \in Shuffles}

GameReset ==
    \E gameStateArg \in GameStateArguments :
        BroadcastGameReset(Players, gameStateArg)

DrawRound ==
    \E connectionId \in Range(Players) :
        BroadcastDrawRound(connectionId, Players)

UpdateGameState ==
    \E dealer \in {0, 3}, wind \in {0, 3} :
        BroadcastUpdateGameState(Players, dealer, wind)

PlayedTileToUsers ==
    \E callerConnectionId \in Range(Players) :
        BroadcastPlayedTileToUsers(InitialTiles[1], callerConnectionId, Players)

WinningTiles ==
    \E connectionId \in Range(Players) :
        BroadcastWinningTiles(Players, connectionId, "handPointResults")

SelfPlayTile == BroadcastSelfPlayTile(Players, "payload")

Settle == \E i \in DOMAIN outbox : SettleSend(i)

Close == \E c \in Range(Players) : CloseConnection(c)

NextBroadcast ==
    \/ GameUpdate
    \/ InGameMessage
    \/ InGameUpdate
    \/ GameStart
    \/ GameReset
    \/ DrawRound
    \/ UpdateGameState
    \/ PlayedTileToUsers
    \/ WinningTiles
    \/ SelfPlayTile
    \/ Settle
    \/ PromiseAllSettles
    \/ Close

SpecBroadcast == InitBroadcast /\ [][NextBroadcast]_vars

\* C10: in every fan-out broadcast, a send that fails for one recipient does
\* not stop a send from being issued to every other recipient: whatever the
\* state of the other promises, every recipient of the broadcast in progress
\* has exactly one send issued to it.
C10_FailedSendStopsNoOtherSend ==
    \A r \in Range(hist.broadcast.recipients) :
        Cardinality({i \in DOMAIN outbox : outbox[i].to = r}) = 1

\* the send to the first of four recipients failed, and the three other
\* sends were issued and went through
C10_Witness ==
    /\ Len(hist.broadcast.recipients) = 4
    /\ ~hist.broadcast.rejected
    /\ outbox[1].status = "failed"
    /\ \A i \in 2..4 : outbox[i].status = "sent"

\* C6: broadcastGameStart sends each connection of the game exactly one
\* GAME_START message; its tiles are the hand of that connection and the hand
\* of no other player, and its selfPlayedTiles lists the played-tile pile of
\* every player of the game.
C6_GameStartIsPersonalised ==
    (hist.broadcast.fn = "broadcastGameStart" /\ ~hist.broadcast.threw) =>
        LET hands == hist.broadcast.args.gameState.hands IN
        \A h \in DOMAIN hands :
            LET c == hands[h].connectionId
                msgs == {i \in DOMAIN outbox : outbox[i].to = c} IN
            /\ Cardinality(msgs) = 1
            /\ \A i \in msgs :
                  /\ outbox[i].action = "GAME_START"
                  /\ outbox[i].payload.tiles = hands[h].hand
                  /\ \A o \in DOMAIN hands \ {h} :
                        outbox[i].payload.tiles # hands[o].hand
                  /\ Len(outbox[i].payload.selfPlayedTiles) = Len(hands)
                  /\ \A o \in DOMAIN hands :
                        \E k \in DOMAIN outbox[i].payload.selfPlayedTiles :
                            outbox[i].payload.selfPlayedTiles[k] =
                                [connectionId |-> hands[o].connectionId,
                                 playedTiles |-> hands[o].playedTiles]

\* a new game has been started for the four players and the four GAME_START
\* messages have gone through
C6_Witness ==
    /\ hist.broadcast.fn = "broadcastGameStart"
    /\ hist.broadcast.recipients = Players
    /\ Len(outbox) = 4
    /\ \A i \in DOMAIN outbox :
          outbox[i].action = "GAME_START" /\ outbox[i].status = "sent"
    /\ proc[Broadcaster].pc = "idle"



\* C11: a fan-out broadcast returns to its caller only after the send to
\* every recipient has settled, sent or failed: whenever the broadcaster is
\* back to idle, no send of its broadcast is still pending.
C11_BroadcastReturnsAfterAllSettled ==
    proc[Broadcaster].pc = "idle" => AllSettled

\* broadcastDrawRound to four recipients has returned, one of its sends
\* having failed
C11_Witness ==
    /\ proc[Broadcaster].pc = "idle"
    /\ hist.broadcast.fn = "broadcastDrawRound"
    /\ Len(outbox) = 4
    /\ \E i \in DOMAIN outbox : outbox[i].status = "failed"


-----------------------------------------------------------------------------
(* Draw with round restart: broadcastDrawTileToUser and                    *)
(* startNewRoundAndSendUpdates, each await of an invocation one step       *)

\* what JavaScript reads from an attribute that is not there
Undefined == -2

\* 'users[dealer].connectionId' throws: users has no element at dealer
NoUserAt(users, dealer) == (dealer + 1) \notin DOMAIN users

\* 'users[dealer].connectionId !== connectionId'
isDealerChangedAlways(users, dealer, connectionId) == TRUE

isDealerChanged(users, dealer, connectionId) == users[dealer + 1] # connectionId

\* the dealer and wind handed to broadcastUpdateGameState
UpdateGameStateArgsOfDealerRead(updatedGameState, dealer) ==
    [dealer |-> dealer, wind |-> updatedGameState.currentWind]

UpdateGameStateArgs(updatedGameState, dealer) ==
    [dealer |-> IF Has(updatedGameState, "dealer")
                THEN updatedGameState.dealer ELSE Undefined,
     wind |-> IF Has(updatedGameState, "currentWind")
              THEN updatedGameState.currentWind ELSE Undefined]

\* the recipients of DRAW_ROUND
DrawRoundRecipientsExceptCaller(connectionId, connectionIds) ==
    getConnectionIdsExceptCaller(connectionId, connectionIds)

DrawRoundRecipients(connectionId, connectionIds) == connectionIds

\* the sends of one action among those issued by the calls in progress
SendsOf(action) == {i \in DOMAIN outbox : outbox[i].action = action}

\* the sends that have not settled; those settled before an invocation
\* begins are no longer kept
InFlightSends == SelectSeq(outbox, LAMBDA send : send.status = "pending")

\* the promises of the ws.send calls that invocation p makes
IssuedBy(p, sends) == [i \in DOMAIN sends |-> sends[i] @@ [by |-> p]]

\* the promises invocation p holds
PromisesOf(p) == {i \in DOMAIN outbox : outbox[i].by = p}

\* 'await Promise.all(promises)' and 'await ws.send(...)' of invocation p
\* wait for the sends p issued, and for no send of another invocation
PromisesResolved(p) ==
    \A i \in PromisesOf(p) : outbox[i].status \in {"sent", "failed"}

\* the locals of an invocation of broadcastDrawTileToUser for connectionId
DrawTileToUserCall(connectionId) ==
    [pc |-> "idle", connectionId |-> connectionId, readIndex |-> 0,
     tileDrawn |-> NoTile, users |-> <<>>, currentDealer |-> 0,
     nextDealerIndex |-> 0, nextWindNum |-> 0,
     updatedGameState |-> NoGameState]

\* the invocation throws
DrawTileToUserThrows(p) ==
    /\ proc' = [proc EXCEPT ![p] = Idle]
    /\ hist' = [hist EXCEPT !.broadcast.threw = TRUE]

\* broadcastDrawTileToUser is called for connectionId; drawTile, first await:
\* getGameStateByGameId and the exhaustion test.  Without an item the
\* destructuring of undefined throws, and so does wall[currentIndex] of an
\* item without wall
BroadcastDrawTileToUser(p, connectionId) ==
    /\ proc[p].pc = "idle"
    /\ LET gs == gameState[GameId]
           exhausted == Has(gs, "currentIndex") /\ WallExhausted(gs.currentIndex)
           throws == ~exhausted /\ ~Has(gs, "wall")
           tileDrawn == IF exhausted \/ throws \/ ~Has(gs, "currentIndex")
                        THEN NoTile
                        ELSE TileAt(gs.wall, gs.currentIndex)
           call == [DrawTileToUserCall(connectionId) EXCEPT
                       !.readIndex = gs.currentIndex,
                       !.tileDrawn = tileDrawn] IN
       /\ proc' = [proc EXCEPT ![p] =
               IF throws THEN Idle
               ELSE [call EXCEPT !.pc = IF exhausted THEN "doubleCheck"
                                        ELSE "increment"]]
       /\ hist' = [hist EXCEPT
               !.lastRound = NoRound,
               !.lastDraw = [by |-> connectionId, readIndex |-> gs.currentIndex,
                             tileDrawn |-> tileDrawn],
               !.broadcast = [NoBroadcast EXCEPT
                                 !.fn = "broadcastDrawTileToUser",
                                 !.threw = throws]]
    /\ outbox' = InFlightSends
    /\ UNCHANGED <<connections, games, gameState>>

\* drawTile, second await: incrementCurrentTileIndex; drawTile returns the
\* tile read, which is undefined for an item without currentIndex
DrawRestartIncrement(p) ==
    /\ proc[p].pc = "increment"
    /\ gameState' = [gameState EXCEPT ![GameId] = incrementCurrentTileIndex(@)]
    /\ proc' = [proc EXCEPT ![p].pc =
            IF proc[p].tileDrawn = NoTile THEN "doubleCheck"
            ELSE "getCurrentTileIndex"]
    /\ hist' = [hist EXCEPT !.lastWrite = "incrementCurrentTileIndex"]
    /\ UNCHANGED <<connections, games, outbox>>

\* a tile was drawn: getCurrentTileIndex reads the index anew, then
\* DRAW_TILE is sent to the drawer
DrawRestartSendTile(p) ==
    /\ proc[p].pc = "getCurrentTileIndex"
    /\ LET gs == gameState[GameId]
           currentIndex == IF Has(gs, "currentIndex") THEN gs.currentIndex
                           ELSE Undefined IN
       outbox' = outbox \o IssuedBy(p, <<
           Send("DRAW_TILE",
                [tile |-> proc[p].tileDrawn, currentIndex |-> currentIndex],
                proc[p].connectionId)>>)
    /\ proc' = [proc EXCEPT ![p].pc = "send"]
    /\ UNCHANGED <<connections, games, gameState, hist>>

\* 'await ws.send(wsResponse, connectionId)' of the tile drawn returns
DrawTileSent(p) ==
    /\ proc[p].pc = "send"
    /\ PromisesResolved(p)
    /\ proc' = [proc EXCEPT ![p] = Idle]
    /\ UNCHANGED <<connections, games, gameState, outbox, hist>>

\* no tile was drawn: getCurrentTileIndex reads the index again and the call
\* throws unless it is 144
DrawRestartGetCurrentTileIndex(p) ==
    /\ proc[p].pc = "doubleCheck"
    /\ LET gs == gameState[GameId] IN
       IF ~Has(gs, "currentIndex") \/ gs.currentIndex # DEFAULT_WALL_LENGTH
       THEN DrawTileToUserThrows(p)
       ELSE /\ proc' = [proc EXCEPT ![p].pc = "getUsersInGame"]
            /\ hist' = hist
    /\ UNCHANGED <<connections, games, gameState, outbox>>

\* getUsersInGame: without users the call throws; otherwise
\* broadcastDrawRound sends DRAW_ROUND to the users of the game
DrawRestartGetUsersInGame(p) ==
    /\ proc[p].pc = "getUsersInGame"
    /\ LET users == games[GameId].users
           connectionIds == users
           connectionId == proc[p].connectionId IN
       IF ~games[GameId].present
       THEN /\ DrawTileToUserThrows(p)
            /\ outbox' = outbox
       ELSE /\ outbox' = outbox \o IssuedBy(p, SendEach("DRAW_ROUND",
                    [cid \in Range(connectionIds) |->
                        [gameId |-> GameId, connectionId |-> connectionId]],
                    DrawRoundRecipients(connectionId, connectionIds)))
            /\ proc' = [proc EXCEPT ![p].pc = "broadcastDrawRound",
                                    ![p].users = users]
            /\ hist' = hist
    /\ UNCHANGED <<connections, games, gameState>>

\* broadcastDrawRound returns; getCurrentDealer reads the dealer
DrawRoundJoined(p) ==
    /\ proc[p].pc = "broadcastDrawRound"
    /\ PromisesResolved(p)
    /\ LET gs == gameState[GameId] IN
       proc' = [proc EXCEPT ![p].pc = "startNewGameRound",
                            ![p].currentDealer =
                                IF Has(gs, "dealer") THEN gs.dealer
                                ELSE Undefined]
    /\ UNCHANGED <<connections, games, gameState, outbox, hist>>

\* startNewRoundAndSendUpdates once startNewGameRound has returned: 400
\* without an updated game state, otherwise broadcastUpdateGameState sends
\* UPDATE_GAME_STATE to the connections
SendUpdates(p, updatedGameState) ==
    LET connectionIds == proc[p].users
        args == UpdateGameStateArgs(updatedGameState, proc[p].currentDealer) IN
    IF ~updatedGameState.present
    THEN /\ proc' = [proc EXCEPT ![p] = Idle]
         /\ outbox' = outbox
    ELSE /\ proc' = [proc EXCEPT ![p].pc = "broadcastUpdateGameState",
                                 ![p].updatedGameState = updatedGameState]
         /\ outbox' = outbox \o IssuedBy(p, SendEach("UPDATE_GAME_STATE",
                [cid \in Range(connectionIds) |-> args], connectionIds))

\* startNewRoundAndSendUpdates: 'users[dealer].connectionId' throws without
\* a user at dealer; startNewGameRound, first await: the conditional update,
\* which throws without an item; with isDealerChanged changeDealer follows
DrawRestartStartNewGameRound(p, s) ==
    /\ proc[p].pc = "startNewGameRound"
    /\ LET me == proc[p]
           gs == gameState[GameId]
           connectionIds == me.users
           updatedGameState == startNewGameRoundUpdate(gs, s, connectionIds) IN
       IF NoUserAt(me.users, me.currentDealer) \/ ~gs.present
       THEN /\ DrawTileToUserThrows(p)
            /\ UNCHANGED <<gameState, outbox>>
       ELSE /\ gameState' = [gameState EXCEPT ![GameId] = updatedGameState]
            /\ hist' = [hist EXCEPT
                    !.lastWrite = "startNewGameRound",
                    !.rounds = @ + 1,
                    !.lastRound =
                        [by |-> me.connectionId,
                         isDealerChanged |->
                             isDealerChanged(me.users, me.currentDealer,
                                             me.connectionId),
                         dealerBefore |-> me.currentDealer,
                         windBefore |-> gs.currentWind,
                         indexBefore |-> gs.currentIndex,
                         failed |-> FALSE]]
            /\ IF isDealerChanged(me.users, me.currentDealer, me.connectionId)
               THEN /\ proc' = [proc EXCEPT ![p].pc = "changeDealerGet"]
                    /\ outbox' = outbox
               ELSE SendUpdates(p, updatedGameState)
    /\ UNCHANGED <<connections, games>>

\* changeDealer, first await: getGameStateByGameId; without an item the call
\* throws, and an item without dealer gives NaN for the next dealer
DrawRestartChangeDealerGet(p) ==
    /\ proc[p].pc = "changeDealerGet"
    /\ LET gs == gameState[GameId]
           next == IF Has(gs, "dealer") THEN nextDealerIndex(gs.dealer) ELSE NaN IN
       IF ~gs.present
       THEN DrawTileToUserThrows(p)
       ELSE /\ proc' = [proc EXCEPT
                    ![p].pc = IF next = 0 THEN "changeWindGet"
                              ELSE "changeDealerUpdate",
                    ![p].nextDealerIndex = next]
            /\ hist' = hist
    /\ UNCHANGED <<connections, games, gameState, outbox>>

\* changeWind, first await: getGameStateByGameId
DrawRestartChangeWindGet(p) ==
    /\ proc[p].pc = "changeWindGet"
    /\ LET gs == gameState[GameId] IN
       IF ~gs.present
       THEN DrawTileToUserThrows(p)
       ELSE /\ proc' = [proc EXCEPT
                    ![p].pc = "changeWindUpdate",
                    ![p].nextWindNum = IF Has(gs, "currentWind")
                                       THEN nextWindNum(gs.currentWind)
                                       ELSE NaN]
            /\ hist' = hist
    /\ UNCHANGED <<connections, games, gameState, outbox>>

\* changeWind, second await: SET currentWind = :nextWindNum; the request is
\* refused for NaN or a failed condition, and the call throws
DrawRestartChangeWindUpdate(p) ==
    /\ proc[p].pc = "changeWindUpdate"
    /\ IF proc[p].nextWindNum # NaN /\ WithinMaxUserCount(proc[p].nextWindNum)
       THEN /\ gameState' = [gameState EXCEPT
                    ![GameId].present = TRUE,
                    ![GameId].attrs = @ \cup {"currentWind"},
                    ![GameId].currentWind = proc[p].nextWindNum]
            /\ proc' = [proc EXCEPT ![p].pc = "changeDealerUpdate"]
            /\ hist' = hist
       ELSE /\ gameState' = gameState
            /\ DrawTileToUserThrows(p)
    /\ UNCHANGED <<connections, games, outbox>>

\* changeDealer, last await: SET dealer = :nextDealerIndex, ReturnValues
\* ALL_NEW; startNewGameRound returns the item stored
DrawRestartChangeDealerUpdate(p) ==
    /\ proc[p].pc = "changeDealerUpdate"
    /\ LET updatedGameState ==
               [gameState[GameId] EXCEPT
                   !.present = TRUE,
                   !.attrs = @ \cup {"dealer"},
                   !.dealer = proc[p].nextDealerIndex] IN
       IF proc[p].nextDealerIndex # NaN
              /\ WithinMaxUserCount(proc[p].nextDealerIndex)
       THEN /\ gameState' = [gameState EXCEPT ![GameId] = updatedGameState]
            /\ SendUpdates(p, updatedGameState)
            /\ hist' = hist
       ELSE /\ DrawTileToUserThrows(p)
            /\ UNCHANGED <<gameState, outbox>>
    /\ UNCHANGED <<connections, games>>

\* broadcastUpdateGameState returns and 'await sleep(5000)' starts
UpdateGameStateJoined(p) ==
    /\ proc[p].pc = "broadcastUpdateGameState"
    /\ PromisesResolved(p)
    /\ proc' = [proc EXCEPT ![p].pc = "sleep"]
    /\ UNCHANGED <<connections, games, gameState, outbox, hist>>

\* the delay has elapsed: broadcastGameReset sends GAME_START with the hands
\* and the index of the game state startNewGameRound returned; without
\* hands the call throws
SleepElapsed(p) ==
    /\ proc[p].pc = "sleep"
    /\ LET me == proc[p]
           connectionIds == me.users IN
       IF Has(me.updatedGameState, "hands")
       THEN /\ outbox' = outbox \o IssuedBy(p, SendEach("GAME_START",
                    [cid \in Range(connectionIds) |->
                        GameStartPayload(me.updatedGameState.hands,
                                         me.updatedGameState.currentIndex, cid)],
                    connectionIds))
            /\ proc' = [proc EXCEPT ![p].pc = "broadcastGameReset"]
            /\ hist' = [hist EXCEPT !.broadcast.fn = "broadcastGameReset"]
       ELSE /\ DrawTileToUserThrows(p)
            /\ outbox' = outbox
    /\ UNCHANGED <<connections, games, gameState>>

\* broadcastGameReset returns, and so do startNewRoundAndSendUpdates and
\* broadcastDrawTileToUser
GameResetJoined(p) ==
    /\ proc[p].pc = "broadcastGameReset"
    /\ PromisesResolved(p)
    /\ proc' = [proc EXCEPT ![p] = Idle]
    /\ hist' = [hist EXCEPT !.broadcast.fn = "startNewRoundAndSendUpdates"]
    /\ UNCHANGED <<connections, games, gameState, outbox>>

\* the next step of the invocation of handler p
DrawRestartStep(p) ==
    \/ DrawRestartIncrement(p)
    \/ DrawRestartSendTile(p)
    \/ DrawTileSent(p)
    \/ DrawRestartGetCurrentTileIndex(p)
    \/ DrawRestartGetUsersInGame(p)
    \/ DrawRoundJoined(p)
    \/ \E s \in Shuffles : DrawRestartStartNewGameRound(p, s)
    \/ DrawRestartChangeDealerGet(p)
    \/ DrawRestartChangeWindGet(p)
    \/ DrawRestartChangeWindUpdate(p)
    \/ DrawRestartChangeDealerUpdate(p)
    \/ UpdateGameStateJoined(p)
    \/ SleepElapsed(p)
    \/ GameResetJoined(p)

\* a draw request may come in: the wall is about to run out, or the round
\* is at most MaxRoundDraws draws old
DrawRequested ==
    \/ gameState[GameId].currentIndex >= DEFAULT_WALL_LENGTH - 1
    \/ gameState[GameId].currentIndex
          < getCurrentTileIndexAfterDeal(Players) + MaxRoundDraws

-----------------------------------------------------------------------------
(* SpecRestart: the players of a started game whose wall is about to run   *)
(* out draw, one call at a time, while clients go away                     *)

InitRestart ==
    /\ connections = [c \in Range(Players) |->
                          [saveConnection EXCEPT !.gameId = GameId]]
    /\ games = [g \in {GameId} |->
                   [createGame(Players[1]) EXCEPT !.users = Players,
                                                  !.state = "STARTED"]]
    /\ \E s \in Shuffles, dealer \in {0, 3}, wind \in {0, 3},
          currentIndex \in (DEFAULT_WALL_LENGTH - 1)..(DEFAULT_WALL_LENGTH + 1) :
          gameState = [g \in {GameId} |->
              [initGameState(s, Players) EXCEPT !.currentIndex = currentIndex,
                                                !.dealer = dealer,
                                                !.currentWind = wind]]
    /\ proc = [b \in {Broadcaster} |-> Idle]
    /\ outbox = <<>>
    /\ hist = NoHist

RestartDrawTileToUser ==
    /\ DrawRequested
    /\ \E connectionId \in Range(Players) :
          BroadcastDrawTileToUser(Broadcaster, connectionId)

NextRestart ==
    \/ RestartDrawTileToUser
    \/ DrawRestartStep(Broadcaster)
    \/ Settle
    \/ Close

SpecRestart == InitRestart /\ [][NextRestart]_vars


\* a send of the round restart has failed
RestartSendFailed ==
    \E i \in SendsOf("UPDATE_GAME_STATE") \cup SendsOf("GAME_START") :
        outbox[i].status = "failed"

\* C12: when a send to one recipient fails during a round restart, the game
\* state written by startNewGameRound stays applied, UPDATE_GAME_STATE has
\* been issued to every player, and the restart does not return before
\* GAME_START with the new hand has been issued to every player.
C12_FailedSendAbortsNoRestart ==
    RestartSendFailed =>
        /\ hist.lastWrite = "startNewGameRound"
        /\ proc[Broadcaster].pc = "idle"
              \/ gameState[GameId] = proc[Broadcaster].updatedGameState
        /\ gameState[GameId].present
        /\ gameState[GameId].currentIndex = getCurrentTileIndexAfterDeal(Players)
        /\ \A c \in Range(Players) :
              \E i \in SendsOf("UPDATE_GAME_STATE") : outbox[i].to = c
        /\ proc[Broadcaster].pc = "idle" =>
              \A c \in Range(Players) :
                  \E i \in SendsOf("GAME_START") :
                      /\ outbox[i].to = c
                      /\ outbox[i].payload.tiles =
                            getHandByConnectionId(gameState[GameId].hands, c).hand

\* the restart has returned: the UPDATE_GAME_STATE to one player failed, the
\* three others went through, and so did a GAME_START
C12_Witness ==
    /\ proc[Broadcaster].pc = "idle"
    /\ hist.broadcast.fn = "startNewRoundAndSendUpdates"
    /\ Cardinality({i \in SendsOf("UPDATE_GAME_STATE") :
                        outbox[i].status = "failed"}) = 1
    /\ Cardinality({i \in SendsOf("UPDATE_GAME_STATE") :
                        outbox[i].status = "sent"}) = 3
    /\ \E i \in SendsOf("GAME_START") : outbox[i].status = "sent"

\* C15: startNewRoundAndSendUpdates works in order: no UPDATE_GAME_STATE is
\* sent before startNewGameRound has written the game state; the delay starts
\* only when the UPDATE_GAME_STATE to every player has settled; no GAME_START
\* is sent before the delay has elapsed; and UPDATE_GAME_STATE carries the
\* dealer and wind that the mutation stored.
C15_RestartStepsInOrder ==
    /\ SendsOf("UPDATE_GAME_STATE") # {} =>
          /\ hist.lastWrite = "startNewGameRound"
          /\ hist.lastRound.by = hist.lastDraw.by
    /\ proc[Broadcaster].pc = "sleep" =>
          /\ \A c \in Range(Players) :
                \E i \in SendsOf("UPDATE_GAME_STATE") : outbox[i].to = c
          /\ \A i \in SendsOf("UPDATE_GAME_STATE") : outbox[i].status # "pending"
    /\ SendsOf("GAME_START") # {} =>
          proc[Broadcaster].pc \in {"broadcastGameReset", "idle"}
    /\ \A i \in SendsOf("UPDATE_GAME_STATE") :
          /\ outbox[i].payload.dealer = gameState[GameId].dealer
          /\ outbox[i].payload.wind = gameState[GameId].currentWind
          /\ outbox[i].payload.dealer =
                IF hist.lastRound.isDealerChanged
                THEN (hist.lastRound.dealerBefore + 1) % 4
                ELSE hist.lastRound.dealerBefore

\* the delay is running after a restart that changed the dealer from the
\* last player to the first and with it the wind
C15_Witness ==
    /\ proc[Broadcaster].pc = "sleep"
    /\ hist.lastRound.isDealerChanged
    /\ hist.lastRound.dealerBefore = 3
    /\ gameState[GameId].dealer = 0
    /\ gameState[GameId].currentWind # hist.lastRound.windBefore
    /\ Cardinality(SendsOf("UPDATE_GAME_STATE")) = 4

\* C16: broadcastDrawTileToUser sends a tile drawn to the drawer only; a draw
\* that finds the wall exhausted at index 144 sends no DRAW_TILE and sends
\* DRAW_ROUND to every connection of the game, and the round restart writes
\* the game state only after these sends have settled.
C16_DrawTileToDrawerElseDrawRound ==
    /\ \A i \in SendsOf("DRAW_TILE") :
          /\ outbox[i].to = hist.lastDraw.by
          /\ outbox[i].payload.tile = hist.lastDraw.tileDrawn
          /\ hist.lastDraw.tileDrawn # NoTile
          /\ Len(outbox) = 1
    /\ ( /\ hist.lastDraw.by # 0
         /\ hist.lastDraw.readIndex = DEFAULT_WALL_LENGTH ) =>
          /\ SendsOf("DRAW_TILE") = {}
          /\ ~hist.broadcast.threw
          /\ proc[Broadcaster].pc \notin {"doubleCheck", "getUsersInGame"} =>
                \A c \in Range(games[GameId].users) :
                    Cardinality({i \in SendsOf("DRAW_ROUND") :
                                     outbox[i].to = c}) = 1
    /\ hist.lastRound.by # 0 =>
          /\ SendsOf("DRAW_ROUND") # {}
          /\ \A i \in SendsOf("DRAW_ROUND") : outbox[i].status # "pending"

\* a draw at index 144 has sent DRAW_ROUND to the four players and has then
\* restarted the round
C16_Witness ==
    /\ hist.lastDraw.readIndex = DEFAULT_WALL_LENGTH
    /\ hist.lastDraw.tileDrawn = NoTile
    /\ Cardinality(SendsOf("DRAW_ROUND")) = 4
    /\ hist.lastRound.by = hist.lastDraw.by
    /\ hist.lastWrite = "startNewGameRound"

\* the last tile of the wall has been drawn and sent to its drawer
C16_WitnessTile ==
    /\ hist.lastDraw.readIndex = DEFAULT_WALL_LENGTH - 1
    /\ \E i \in SendsOf("DRAW_TILE") : outbox[i].status = "sent"


-----------------------------------------------------------------------------
(* Lobby handlers with their replies and broadcasts: onCreateGame,         *)
(* onJoinGame, onSendMessage and onGetAllUsers, one invocation at a time   *)

MaxCallers == 3

MaxHandlerCalls == 3

Callers == 1..MaxCallers

\* setGameIdForUser: 'SET gameId = :gameIdVal'
setGameIdForUserNoWrite(user, gameId) == user

setGameIdForUser(user, gameId) == [user EXCEPT !.gameId = gameId]

\* the direct replies of the invocation: the responses to the action, sent to
\* its caller
Replies ==
    {i \in DOMAIN outbox : /\ outbox[i].action = hist.lastCall.action
                           /\ outbox[i].to = hist.lastCall.by}

\* the sends of the invocation to other connections
Broadcasts == {i \in DOMAIN outbox : outbox[i].to # hist.lastCall.by}

Call(action, by, gameId, malformed) ==
    [action |-> action, by |-> by, gameId |-> gameId, malformed |-> malformed,
     hadGameId |-> connections[by].gameId # NoGameId, gamesBefore |-> games,
     stored |-> FALSE, statusCode |-> 0]

\* a handler is invoked for an action of connectionId, one invocation at a
\* time; no handler looks for the record of its caller before it acts
CanInvoke(connectionId) ==
    /\ proc[Broadcaster].pc = "idle"
    /\ AllSettled
    /\ hist.calls < MaxHandlerCalls

\* 'return response(statusCode, ...)'
Return(statusCode) ==
    /\ proc' = [proc EXCEPT ![Broadcaster] = Idle]
    /\ hist' = [hist EXCEPT !.lastCall.statusCode = statusCode]

\* catch: the failed response is sent to the caller
Catch(pc) ==
    /\ outbox' = Append(outbox,
           SendFailed(hist.lastCall.action, hist.lastCall.by))
    /\ proc' = [proc EXCEPT ![Broadcaster] = [pc |-> pc]]

\* onCreateGame up to its first await: without a game in the payload the
\* failed response is sent, otherwise createGame stores the game
OnCreateGame(connectionId, game) ==
    /\ CanInvoke(connectionId)
    /\ game => hist.created < MaxGames
    /\ LET gameId == IF game THEN hist.created + 1 ELSE NoGameId IN
       /\ hist' = [hist EXCEPT !.calls = @ + 1,
               !.created = IF game THEN gameId ELSE @,
               !.lastCall = Call("CREATE_GAME", connectionId, gameId, ~game)]
       /\ IF ~game
          THEN /\ outbox' = <<SendFailed("CREATE_GAME", connectionId)>>
               /\ proc' = [proc EXCEPT ![Broadcaster] = [pc |-> "createGame_badRequest"]]
               /\ games' = games
          ELSE /\ outbox' = <<>>
               /\ proc' = [proc EXCEPT ![Broadcaster] =
                       [pc |-> "createGame_setGameIdForUser"]]
               /\ games' = [games EXCEPT ![gameId] = createGame(connectionId)]
    /\ UNCHANGED <<connections, gameState>>

\* the failed response of '!game' is sent: 400
OnCreateGameBadRequestSent ==
    /\ proc[Broadcaster].pc = "createGame_badRequest"
    /\ PromiseAllResolved
    /\ Return(400)
    /\ UNCHANGED <<connections, games, gameState, outbox>>

\* setGameIdForUser, which throws when its condition fails, then the success
\* response to the caller
OnCreateGameSetGameIdForUser ==
    /\ proc[Broadcaster].pc = "createGame_setGameIdForUser"
    /\ LET connectionId == hist.lastCall.by
           gameId == hist.lastCall.gameId IN
       IF setGameIdForUserCondition(connections[connectionId])
       THEN /\ connections' = [connections EXCEPT ![connectionId] =
                    setGameIdForUser(@, gameId)]
            /\ hist' = [hist EXCEPT !.lastCall.stored =
                    /\ games[gameId] = createGame(connectionId)
                    /\ connections'[connectionId].gameId = gameId]
            /\ outbox' = <<SendSuccess("CREATE_GAME",
                                                    connectionId, gameId)>>
            /\ proc' = [proc EXCEPT ![Broadcaster] = [pc |-> "createGame_send"]]
       ELSE /\ Catch("createGame_catch")
            /\ UNCHANGED <<connections, hist>>
    /\ UNCHANGED <<games, gameState>>

\* the success response is sent; getAllConnections scans the Connections
\* table
OnCreateGameSent ==
    /\ proc[Broadcaster].pc = "createGame_send"
    /\ PromiseAllResolved
    /\ proc' = [proc EXCEPT ![Broadcaster] =
            [pc |-> "createGame_getGameByGameId",
             connectionIds |-> getAllConnectionIds]]
    /\ UNCHANGED <<connections, games, gameState, outbox, hist>>

\* broadcastGameUpdate reads the game and sends GAME_UPDATE to the
\* connections scanned, the caller left out
OnCreateGameGetGameByGameId ==
    /\ proc[Broadcaster].pc = "createGame_getGameByGameId"
    /\ LET connectionId == hist.lastCall.by
           gameId == hist.lastCall.gameId
           recipients ==
               getConnectionIdsExceptCaller(connectionId,
                                            proc[Broadcaster].connectionIds)
           payload == [game |-> games[gameId], state |-> "CREATED"] IN
       outbox' = IF games[gameId].present
                 THEN outbox \o SendEach("GAME_UPDATE",
                          [cid \in Range(recipients) |-> payload], recipients)
                 ELSE outbox
    /\ proc' = [proc EXCEPT ![Broadcaster] =
            [pc |-> "createGame_broadcastGameUpdate"]]
    /\ UNCHANGED <<connections, games, gameState, hist>>

\* 'await Promise.all(promises)' of a handler's broadcast returns, or throws
\* into the catch of the handler
BroadcastJoined(pc, then, catch) ==
    /\ proc[Broadcaster].pc = pc
    /\ PromiseAllRejected \/ PromiseAllResolved
    /\ IF PromiseAllRejected
       THEN Catch(catch)
       ELSE /\ proc' = [proc EXCEPT ![Broadcaster] = [pc |-> then]]
            /\ outbox' = outbox

\* broadcastGameUpdate returns: 200
OnCreateGameBroadcastJoined ==
    /\ BroadcastJoined("createGame_broadcastGameUpdate", "createGame_return",
                       "createGame_catch")
    /\ UNCHANGED <<connections, games, gameState, hist>>

OnCreateGameReturn ==
    /\ proc[Broadcaster].pc = "createGame_return"
    /\ Return(200)
    /\ UNCHANGED <<connections, games, gameState, outbox>>

\* the failed response of the catch is sent: 500
OnCreateGameCaught ==
    /\ proc[Broadcaster].pc = "createGame_catch"
    /\ PromiseAllResolved
    /\ Return(500)
    /\ UNCHANGED <<connections, games, gameState, outbox>>

\* onJoinGame up to the end of addUserToGame, called with the gameId of the
\* payload as it is.  A game that is not there gives undefined, and the
\* handler returns 200; a full or started game throws; without a gameId the
\* call throws (throws true) or finds no game
OnJoinGame(connectionId, gameId, throws) ==
    /\ CanInvoke(connectionId)
    /\ gameId = NoGameId \/ ~throws
    /\ LET found == gameId \in DOMAIN games /\ games[gameId].present
           ok == found /\ addUserToGameCondition(games[gameId])
           call == Call("JOIN_GAME", connectionId, gameId, gameId = NoGameId) IN
       /\ games' = IF ok
              THEN [games EXCEPT ![gameId] = addUserToGame(@, connectionId)]
              ELSE games
       /\ IF ok
          THEN /\ outbox' = <<>>
               /\ proc' = [proc EXCEPT ![Broadcaster] =
                       [pc |-> "joinGame_setGameIdForUser",
                        updatedGame |-> games'[gameId]]]
               /\ hist' = [hist EXCEPT !.calls = @ + 1, !.lastCall = call]
          ELSE IF found \/ throws
          THEN /\ outbox' = <<SendFailed("JOIN_GAME", connectionId)>>
               /\ proc' = [proc EXCEPT ![Broadcaster] = [pc |-> "joinGame_catch"]]
               /\ hist' = [hist EXCEPT !.calls = @ + 1, !.lastCall = call]
          ELSE /\ outbox' = <<>>
               /\ proc' = proc
               /\ hist' = [hist EXCEPT !.calls = @ + 1, !.lastCall =
                       [call EXCEPT !.statusCode = 200]]
    /\ UNCHANGED <<connections, gameState>>

\* joinGame: setGameIdForUser, then the success response to the caller
OnJoinGameSetGameIdForUser ==
    /\ proc[Broadcaster].pc = "joinGame_setGameIdForUser"
    /\ LET connectionId == hist.lastCall.by
           gameId == hist.lastCall.gameId IN
       IF setGameIdForUserCondition(connections[connectionId])
       THEN /\ connections' = [connections EXCEPT ![connectionId] =
                    setGameIdForUser(@, gameId)]
            /\ hist' = [hist EXCEPT !.lastCall.stored =
                    /\ connectionId \in Range(games[gameId].users)
                    /\ connections'[connectionId].gameId = gameId]
            /\ outbox' = <<SendSuccess("JOIN_GAME",
                                                    connectionId, gameId)>>
            /\ proc' = [proc EXCEPT ![Broadcaster].pc = "joinGame_send"]
       ELSE /\ Catch("joinGame_catch")
            /\ UNCHANGED <<connections, hist>>
    /\ UNCHANGED <<games, gameState>>

\* the success response is sent; joinGameSendUpdates: broadcastInGameMessage
\* reads the caller's user, 'user.username' throws when there is none,
\* and IN_GAME_MESSAGE is sent to the other users of the game
OnJoinGameSent ==
    /\ proc[Broadcaster].pc = "joinGame_send"
    /\ PromiseAllResolved
    /\ LET connectionId == hist.lastCall.by
           updatedGame == proc[Broadcaster].updatedGame
           recipients == SelectSeq(updatedGame.users, LAMBDA otherConnectionId :
                                       otherConnectionId # connectionId)
           payload == [username |-> connectionId, message |-> "joined"] IN
       IF ~connections[connectionId].present
       THEN Catch("joinGame_catch")
       ELSE /\ outbox' = outbox \o SendEach("IN_GAME_MESSAGE",
                    [cid \in Range(recipients) |-> payload], recipients)
            /\ proc' = [proc EXCEPT ![Broadcaster].pc =
                    "joinGame_broadcastInGameMessage"]
    /\ UNCHANGED <<connections, games, gameState, hist>>

\* broadcastInGameMessage returns; broadcastInGameUpdate sends the users of
\* the game to the other users
OnJoinGameInGameMessageJoined ==
    /\ proc[Broadcaster].pc = "joinGame_broadcastInGameMessage"
    /\ PromiseAllRejected \/ PromiseAllResolved
    /\ LET connectionId == hist.lastCall.by
           usersInGame == proc[Broadcaster].updatedGame.users
           recipients == getConnectionIdsExceptCaller(connectionId, usersInGame)
           payload == [users |-> usersInGame] IN
       IF PromiseAllRejected
       THEN Catch("joinGame_catch")
       ELSE /\ outbox' = outbox \o SendEach("IN_GAME_UPDATE",
                    [cid \in Range(recipients) |-> payload], recipients)
            /\ proc' = [proc EXCEPT ![Broadcaster] =
                    [pc |-> "joinGame_broadcastInGameUpdate"]]
    /\ UNCHANGED <<connections, games, gameState, hist>>

\* broadcastInGameUpdate returns: 200
OnJoinGameInGameUpdateJoined ==
    /\ BroadcastJoined("joinGame_broadcastInGameUpdate", "joinGame_return",
                       "joinGame_catch")
    /\ UNCHANGED <<connections, games, gameState, hist>>

OnJoinGameReturn ==
    /\ proc[Broadcaster].pc = "joinGame_return"
    /\ Return(200)
    /\ UNCHANGED <<connections, games, gameState, outbox>>

\* the failed response of the catch is sent: 500
OnJoinGameCaught ==
    /\ proc[Broadcaster].pc = "joinGame_catch"
    /\ PromiseAllResolved
    /\ Return(500)
    /\ UNCHANGED <<connections, games, gameState, outbox>>

\* onSendMessage: with a username and a message broadcastMessage sends the
\* message to every connection, otherwise 400 at once
OnSendMessage(connectionId, username, message) ==
    /\ CanInvoke(connectionId)
    /\ LET call == Call("SEND_MESSAGE", connectionId, NoGameId,
                        ~(username /\ message))
           recipients == getAllConnectionIds
           payload == [username |-> connectionId, message |-> "message"] IN
       IF username /\ message
       THEN /\ outbox' = SendEach("SEND_MESSAGE",
                    [cid \in Range(recipients) |-> payload], recipients)
            /\ proc' = [proc EXCEPT ![Broadcaster] =
                    [pc |-> "sendMessage_broadcastMessage"]]
            /\ hist' = [hist EXCEPT !.calls = @ + 1, !.lastCall = call]
       ELSE /\ outbox' = <<>>
            /\ proc' = proc
            /\ hist' = [hist EXCEPT !.calls = @ + 1, !.lastCall =
                    [call EXCEPT !.statusCode = 400]]
    /\ UNCHANGED <<connections, games, gameState>>

\* broadcastMessage returns: 200
OnSendMessageJoined ==
    /\ proc[Broadcaster].pc = "sendMessage_broadcastMessage"
    /\ PromiseAllRejected \/ PromiseAllResolved
    /\ Return(IF PromiseAllRejected THEN 500 ELSE 200)
    /\ UNCHANGED <<connections, games, gameState, outbox>>

\* onGetAllUsers up to the send of broadcastConnections: getAllConnections
\* scans the Connections table and, when it finds users, GET_ALL_USERS is
\* sent to the caller
OnGetAllUsers(connectionId) ==
    /\ CanInvoke(connectionId)
    /\ LET connectionIds == getAllConnectionIds IN
       /\ outbox' = IF Len(connectionIds) > 0
                    THEN <<Send("GET_ALL_USERS", [users |-> connectionIds],
                                connectionId)>>
                    ELSE <<>>
       /\ proc' = [proc EXCEPT ![Broadcaster] =
               [pc |-> "getAllUsers_broadcastConnections",
                connectionIds |-> connectionIds]]
    /\ hist' = [hist EXCEPT !.calls = @ + 1, !.lastCall =
            Call("GET_ALL_USERS", connectionId, NoGameId, FALSE)]
    /\ UNCHANGED <<connections, games, gameState>>

\* broadcastConnections returns; broadcastUserUpdate reads the user of the
\* caller and, when there is one, sends USER_UPDATE to the other connections
\* that were scanned
OnGetAllUsersGetUserByConnectionId ==
    /\ proc[Broadcaster].pc = "getAllUsers_broadcastConnections"
    /\ PromiseAllRejected \/ PromiseAllResolved
    /\ IF PromiseAllRejected
       THEN /\ Return(500)
            /\ outbox' = outbox
       ELSE LET callerConnectionId == hist.lastCall.by
                currentUser == connections[callerConnectionId]
                otherIds ==
                    getConnectionIdsExceptCaller(callerConnectionId,
                        proc[Broadcaster].connectionIds)
                payload == [user |-> callerConnectionId,
                            state |-> "CONNECTED"] IN
            /\ outbox' = IF currentUser.present
                         THEN outbox \o SendEach("USER_UPDATE",
                                  [cid \in Range(otherIds) |-> payload],
                                  otherIds)
                         ELSE outbox
            /\ proc' = [proc EXCEPT ![Broadcaster] =
                    [pc |-> "getAllUsers_broadcastUserUpdate"]]
            /\ hist' = hist
    /\ UNCHANGED <<connections, games, gameState>>

\* broadcastUserUpdate returns: 200; the catch of the handler sends nothing
\* and returns 500
OnGetAllUsersJoined ==
    /\ proc[Broadcaster].pc = "getAllUsers_broadcastUserUpdate"
    /\ PromiseAllRejected \/ PromiseAllResolved
    /\ Return(IF PromiseAllRejected THEN 500 ELSE 200)
    /\ UNCHANGED <<connections, games, gameState, outbox>>

-----------------------------------------------------------------------------
(* SpecHandlers: the open connections of an empty lobby create and join    *)
(* games, send messages and ask for the users, one handler at a time,      *)
(* while clients go away                                                   *)

InitHandlers ==
    /\ connections = [c \in Callers |-> saveConnection]
    /\ games = [g \in GameIds |-> NoGame]
    /\ gameState = [g \in GameIds |-> NoGameState]
    /\ proc = [b \in {Broadcaster} |-> Idle]
    /\ outbox = <<>>
    /\ hist = NoHist

HandlersCreateGame ==
    \E connectionId \in Callers, game \in BOOLEAN :
        OnCreateGame(connectionId, game)

HandlersJoinGame ==
    \E connectionId \in Callers, gameId \in GameIds \cup {NoGameId},
       throws \in BOOLEAN :
        OnJoinGame(connectionId, gameId, throws)

HandlersSendMessage ==
    \E connectionId \in Callers, username \in BOOLEAN, message \in BOOLEAN :
        OnSendMessage(connectionId, username, message)

HandlersGetAllUsers == \E connectionId \in Callers : OnGetAllUsers(connectionId)

HandlersClose == \E c \in Callers : CloseConnection(c)

NextHandlers ==
    \/ HandlersCreateGame
    \/ OnCreateGameBadRequestSent
    \/ OnCreateGameSetGameIdForUser
    \/ OnCreateGameSent
    \/ OnCreateGameGetGameByGameId
    \/ OnCreateGameBroadcastJoined
    \/ OnCreateGameReturn
    \/ OnCreateGameCaught
    \/ HandlersJoinGame
    \/ OnJoinGameSetGameIdForUser
    \/ OnJoinGameSent
    \/ OnJoinGameInGameMessageJoined
    \/ OnJoinGameInGameUpdateJoined
    \/ OnJoinGameReturn
    \/ OnJoinGameCaught
    \/ HandlersSendMessage
    \/ OnSendMessageJoined
    \/ HandlersGetAllUsers
    \/ OnGetAllUsersGetUserByConnectionId
    \/ OnGetAllUsersJoined
    \/ Settle
    \/ HandlersClose

SpecHandlers == InitHandlers /\ [][NextHandlers]_vars


\* a send of the invocation to another connection has failed
BroadcastSendFailed == \E i \in Broadcasts : outbox[i].status = "failed"

\* C13: a failed send to a third party during the GAME_UPDATE fan-out of
\* CREATE_GAME is not surfaced to the caller: no failed response is sent to
\* the caller, and the handler returns 200.
C13_BroadcastFailureNotSurfaced ==
    ( /\ hist.lastCall.action = "CREATE_GAME"
      /\ BroadcastSendFailed ) =>
        /\ \A i \in Replies : outbox[i].payload.success
        /\ hist.lastCall.statusCode \in {0, 200}
        /\ proc[Broadcaster].pc \in
              {"createGame_broadcastGameUpdate", "createGame_return", "idle"}

\* CREATE_GAME has returned 200 although the GAME_UPDATE to one connection
\* failed and the one to the other went through
C13_Witness ==
    /\ hist.lastCall.action = "CREATE_GAME"
    /\ proc[Broadcaster].pc = "idle"
    /\ hist.lastCall.statusCode = 200
    /\ \E i \in SendsOf("GAME_UPDATE") : outbox[i].status = "failed"
    /\ \E i \in SendsOf("GAME_UPDATE") : outbox[i].status = "sent"

\* C14: an invocation of the CREATE_GAME or JOIN_GAME handler that has
\* returned has sent exactly one direct reply to its caller.
C14_ExactlyOneDirectReply ==
    ( /\ hist.lastCall.action \in {"CREATE_GAME", "JOIN_GAME"}
      /\ hist.lastCall.statusCode # 0 ) =>
        Cardinality(Replies) = 1

\* C17: within one invocation the mutation comes before the sends: when
\* CREATE_GAME has issued its success response or a GAME_UPDATE, the game was
\* stored with the creator's gameId set; when JOIN_GAME has issued its success
\* response, an IN_GAME_MESSAGE or an IN_GAME_UPDATE, the caller was in the
\* users of the game with its gameId set.
C17_MutationBeforeBroadcast ==
    LET by == hist.lastCall.by
        gameId == hist.lastCall.gameId
        announced ==
            \/ \E i \in Replies : outbox[i].payload.success
            \/ SendsOf("GAME_UPDATE") # {}
            \/ SendsOf("IN_GAME_MESSAGE") # {}
            \/ SendsOf("IN_GAME_UPDATE") # {} IN
    ( /\ hist.lastCall.action \in {"CREATE_GAME", "JOIN_GAME"}
      /\ announced ) =>
        /\ hist.lastCall.stored
        /\ games[gameId].present
        /\ by \in Range(games[gameId].users)
        /\ connections[by].present => connections[by].gameId = gameId

\* JOIN_GAME has sent IN_GAME_UPDATE to the host of the game joined
C17_Witness ==
    /\ hist.lastCall.action = "JOIN_GAME"
    /\ \E i \in SendsOf("IN_GAME_UPDATE") :
          /\ outbox[i].status = "sent"
          /\ outbox[i].to = games[hist.lastCall.gameId].users[1]
    /\ connections[hist.lastCall.by].gameId = hist.lastCall.gameId

\* CREATE_GAME has sent GAME_UPDATE to another connection
C17_WitnessCreate ==
    /\ hist.lastCall.action = "CREATE_GAME"
    /\ \E i \in SendsOf("GAME_UPDATE") : outbox[i].status = "sent"

\* C18: a CREATE_GAME from a connection whose gameId is set fails and leaves
\* the Games table as it was.
C18_CreateGameWithGameIdChangesNothing ==
    ( /\ hist.lastCall.action = "CREATE_GAME"
      /\ ~hist.lastCall.malformed
      /\ hist.lastCall.hadGameId
      /\ hist.lastCall.statusCode # 0 ) =>
        /\ hist.lastCall.statusCode # 200
        /\ games = hist.lastCall.gamesBefore

\* C20: a CREATE_GAME without a game, a SEND_MESSAGE without username or
\* message and a JOIN_GAME without a gameId return 400, and nothing is stored
\* or broadcast by them.
C20_MalformedInputRejectedWith400 ==
    ( /\ hist.lastCall.malformed
      /\ hist.lastCall.statusCode # 0 ) =>
        /\ hist.lastCall.statusCode = 400
        /\ games = hist.lastCall.gamesBefore
        /\ Broadcasts = {}


-----------------------------------------------------------------------------
(* The conditional updates of the gameId of a connection                   *)

MaxUserDBCalls == 4

\* removeGameIdFromUser: 'REMOVE gameId'
removeGameIdFromUser(user) == [user EXCEPT !.gameId = NoGameId]

\* a call of the user service: the update applied, or rejected and thrown
UserDBCall(op, connectionId, gameId, applied) ==
    [NoCall EXCEPT !.action = op, !.by = connectionId, !.gameId = gameId,
                   !.stored = applied]

\* saveConnection on $connect, under a connection id not in use
SaveConnection(connectionId) ==
    /\ ~connections[connectionId].present
    /\ connections' = [connections EXCEPT ![connectionId] = saveConnection]
    /\ hist' = [hist EXCEPT !.lastCall =
            UserDBCall("saveConnection", connectionId, NoGameId, TRUE)]
    /\ UNCHANGED <<games, gameState, proc, outbox>>

\* deleteConnection on $disconnect
DeleteConnection(connectionId) ==
    /\ connections[connectionId].present
    /\ connections' = [connections EXCEPT ![connectionId] = NoUser]
    /\ hist' = [hist EXCEPT !.lastCall =
            UserDBCall("deleteConnection", connectionId, NoGameId, TRUE)]
    /\ UNCHANGED <<games, gameState, proc, outbox>>

\* setGameIdForUser: one conditional update; when the condition fails the
\* update is rejected and the call throws
SetGameIdForUser(connectionId, gameId) ==
    /\ hist.calls < MaxUserDBCalls
    /\ LET applied == setGameIdForUserCondition(connections[connectionId]) IN
       /\ connections' = IF applied
              THEN [connections EXCEPT ![connectionId] =
                       setGameIdForUser(@, gameId)]
              ELSE connections
       /\ hist' = [hist EXCEPT !.calls = @ + 1, !.lastCall =
               UserDBCall("setGameIdForUser", connectionId, gameId, applied)]
    /\ UNCHANGED <<games, gameState, proc, outbox>>

\* removeGameIdFromUser: one conditional update
RemoveGameIdFromUser(connectionId) ==
    /\ hist.calls < MaxUserDBCalls
    /\ LET applied == removeGameIdFromUserCondition(connections[connectionId]) IN
       /\ connections' = IF applied
              THEN [connections EXCEPT ![connectionId] =
                       removeGameIdFromUser(@)]
              ELSE connections
       /\ hist' = [hist EXCEPT !.calls = @ + 1, !.lastCall =
               UserDBCall("removeGameIdFromUser", connectionId, NoGameId,
                          applied)]
    /\ UNCHANGED <<games, gameState, proc, outbox>>

-----------------------------------------------------------------------------
(* SpecUserDB: clients connect and disconnect, and the gameId of their     *)
(* connections is set and removed                                          *)

InitUserDB ==
    /\ connections = [c \in Callers |-> NoUser]
    /\ games = <<>>
    /\ gameState = <<>>
    /\ proc = <<>>
    /\ outbox = <<>>
    /\ hist = NoHist

UserDBSaveConnection == \E c \in Callers : SaveConnection(c)

UserDBDeleteConnection == \E c \in Callers : DeleteConnection(c)

UserDBSetGameIdForUser ==
    \E c \in Callers, gameId \in GameIds : SetGameIdForUser(c, gameId)

UserDBRemoveGameIdFromUser == \E c \in Callers : RemoveGameIdFromUser(c)

NextUserDB ==
    \/ UserDBSaveConnection
    \/ UserDBDeleteConnection
    \/ UserDBSetGameIdForUser
    \/ UserDBRemoveGameIdFromUser

SpecUserDB == InitUserDB /\ [][NextUserDB]_vars

\* the step is a call of op
CalledStep(op) ==
    /\ hist'.calls = hist.calls + 1
    /\ hist'.lastCall.action = op

\* C19: a call of setGameIdForUser sets the gameId of a connection whose
\* record exists and has no gameId, and a call of removeGameIdFromUser removes
\* the gameId of a connection whose record exists and has one; any other call
\* is rejected and leaves the Connections table as it was, so no record is
\* created and no gameId changes.
C19_GameIdUpdatesAreConditional ==
    [][ LET c == hist'.lastCall.by
            exists == connections[c].present
            hasGameId == connections[c].gameId # NoGameId IN
        /\ CalledStep("setGameIdForUser") =>
              IF exists /\ ~hasGameId
              THEN /\ hist'.lastCall.stored
                   /\ connections' = [connections EXCEPT
                                         ![c].gameId = hist'.lastCall.gameId]
              ELSE /\ ~hist'.lastCall.stored
                   /\ connections' = connections
        /\ CalledStep("removeGameIdFromUser") =>
              IF exists /\ hasGameId
              THEN /\ hist'.lastCall.stored
                   /\ connections' = [connections EXCEPT ![c].gameId = NoGameId]
              ELSE /\ ~hist'.lastCall.stored
                   /\ connections' = connections
      ]_vars

\* setGameIdForUser was rejected for a connection that is in a game and
\* whose gameId is still that of its game
C19_Witness ==
    /\ hist.lastCall.action = "setGameIdForUser"
    /\ ~hist.lastCall.stored
    /\ connections[hist.lastCall.by].present
    /\ connections[hist.lastCall.by].gameId # NoGameId
    /\ connections[hist.lastCall.by].gameId # hist.lastCall.gameId

\* setGameIdForUser was rejected for a connection without a record, and no
\* record was created
C19_WitnessNoRecord ==
    /\ hist.lastCall.action = "setGameIdForUser"
    /\ ~hist.lastCall.stored
    /\ ~connections[hist.lastCall.by].present
    /\ hist.calls > 1


\* C21: a JOIN_GAME that is not applied, its game being full, started or not
\* found, is reported to the caller as a failure and never as status 200, and
\* it leaves the users of the game and the gameId of the caller as they were.
C21_JoinNotAppliedIsReportedAsFailure ==
    LET by == hist.lastCall.by
        gameId == hist.lastCall.gameId
        notApplied == \/ ~hist.lastCall.gamesBefore[gameId].present
                      \/ ~addUserToGameCondition(hist.lastCall.gamesBefore[gameId]) IN
    ( /\ hist.lastCall.action = "JOIN_GAME"
      /\ gameId \in GameIds
      /\ hist.lastCall.statusCode # 0
      /\ notApplied ) =>
        /\ hist.lastCall.statusCode # 200
        /\ \E i \in Replies : ~outbox[i].payload.success
        /\ games = hist.lastCall.gamesBefore
        /\ connections[by].present =>
              (connections[by].gameId # NoGameId) = hist.lastCall.hadGameId


-----------------------------------------------------------------------------
(* The negotiation of a discard: setPlayedTileInteraction and              *)
(* resetPlayedTileInteraction, each one conditional update                 *)

MaxNegotiationCalls == 5

\* resetPlayedTileInteraction: 'attribute_exists(gameId)'
resetPlayedTileInteractionCondition(gs) == gs.present

\* its UpdateExpression: SET interactionCount = 0, playedTileInteractions = []
resetPlayedTileInteractionKeepList(gs) ==
    [gs EXCEPT !.attrs = @ \cup InteractionAttributes, !.interactionCount = 0]

resetPlayedTileInteraction(gs) ==
    [gs EXCEPT !.attrs = @ \cup InteractionAttributes,
               !.interactionCount = 0, !.playedTileInteractions = <<>>]

\* a call of the game state service: the update applied, or rejected
GameStateCall(op, connectionId, applied) ==
    [NoCall EXCEPT !.action = op, !.by = connectionId, !.stored = applied]

\* setPlayedTileInteraction as a whole: its update is applied, or rejected
\* and the call throws
PlayedTileInteraction(connectionId, meld, skipInteraction) ==
    /\ hist.calls < MaxNegotiationCalls
    /\ LET gs == gameState[GameId]
           applied == setPlayedTileInteractionCondition(gs)
           playedTileVal == PlayedTile(connectionId, <<InitialTiles[1]>>, meld,
                                       skipInteraction) IN
       /\ gameState' = IF applied
              THEN [gameState EXCEPT ![GameId] =
                       setPlayedTileInteractionUpdate(@, playedTileVal)]
              ELSE gameState
       /\ hist' = [hist EXCEPT !.calls = @ + 1, !.lastCall =
               GameStateCall("setPlayedTileInteraction", connectionId, applied)]
    /\ UNCHANGED <<connections, games, proc, outbox>>

\* resetPlayedTileInteraction as a whole
ResetPlayedTileInteraction ==
    /\ hist.calls < MaxNegotiationCalls
    /\ LET applied == resetPlayedTileInteractionCondition(gameState[GameId]) IN
       /\ gameState' = IF applied
              THEN [gameState EXCEPT ![GameId] = resetPlayedTileInteraction(@)]
              ELSE gameState
       /\ hist' = [hist EXCEPT !.calls = @ + 1, !.lastCall =
               GameStateCall("resetPlayedTileInteraction", 0, applied)]
    /\ UNCHANGED <<connections, games, proc, outbox>>

-----------------------------------------------------------------------------
(* SpecNegotiation: the connections of a started game respond to discards, *)
(* in any number, and the negotiation is reset                             *)

InitNegotiation ==
    /\ connections = <<>>
    /\ games = <<>>
    /\ \E s \in Shuffles, dealer \in 0..1 :
          gameState = [g \in {GameId} |->
              [initGameState(s, Players) EXCEPT !.dealer = dealer]]
    /\ proc = <<>>
    /\ outbox = <<>>
    /\ hist = NoHist

NegotiationInteraction ==
    \E connectionId \in Range(Players), skipInteraction \in BOOLEAN :
        PlayedTileInteraction(connectionId, "TRIPLET", skipInteraction)

\* startNewGameRound without a change of dealer: its one conditional update
NegotiationStartNewGameRound ==
    /\ hist.calls < MaxNegotiationCalls
    /\ LET applied == gameState[GameId].present IN
       /\ \E s \in Shuffles :
             gameState' = IF applied
                 THEN [gameState EXCEPT ![GameId] =
                          startNewGameRoundUpdate(@, s, Players)]
                 ELSE gameState
       /\ hist' = [hist EXCEPT !.calls = @ + 1, !.lastCall =
               GameStateCall("startNewGameRound", 0, applied)]
    /\ UNCHANGED <<connections, games, proc, outbox>>

\* initGameState: the put of a new initial state
NegotiationInitGameState ==
    /\ hist.calls < MaxNegotiationCalls
    /\ \E s \in Shuffles :
          gameState' = [gameState EXCEPT ![GameId] = initGameState(s, Players)]
    /\ hist' = [hist EXCEPT !.calls = @ + 1, !.lastCall =
            GameStateCall("initGameState", 0, TRUE)]
    /\ UNCHANGED <<connections, games, proc, outbox>>

NextNegotiation ==
    \/ NegotiationInteraction
    \/ ResetPlayedTileInteraction
    \/ NegotiationStartNewGameRound
    \/ NegotiationInitGameState

SpecNegotiation == InitNegotiation /\ [][NextNegotiation]_vars

\* C23: in every reachable state of a game interactionCount is at most 3,
\* the number of players that did not discard.
C23_InteractionCountAtMostThree ==
    gameState[GameId].present => gameState[GameId].interactionCount <= 3

\* C28: a call of resetPlayedTileInteraction on a game state sets
\* interactionCount to 0 and playedTileInteractions to the empty list and
\* changes no other field.
C28_ResetClearsNegotiationOnly ==
    [][ CalledStep("resetPlayedTileInteraction") =>
            /\ hist'.lastCall.stored
            /\ gameState'[GameId].interactionCount = 0
            /\ gameState'[GameId].playedTileInteractions = <<>>
            /\ gameState'[GameId] =
                  [gameState[GameId] EXCEPT !.interactionCount = 0,
                                            !.playedTileInteractions = <<>>]
      ]_vars

\* a negotiation with three responses has just been reset
C28_Witness ==
    /\ hist.lastCall.action = "resetPlayedTileInteraction"
    /\ hist.lastCall.stored
    /\ hist.calls = 4
    /\ gameState[GameId].interactionCount = 0
    /\ gameState[GameId].playedTileInteractions = <<>>
    /\ gameState[GameId].dealer = 1

\* C29: a call of setPlayedTileInteraction is applied exactly when
\* interactionCount < 4; applied, it appends one interaction record, that of
\* the call, raises interactionCount by 1 and changes no other field;
\* rejected, it changes nothing.
C29_InteractionGatedAndExact ==
    [][ CalledStep("setPlayedTileInteraction") =>
            LET before == gameState[GameId]
                after == gameState'[GameId] IN
            IF before.interactionCount < 4
            THEN /\ hist'.lastCall.stored
                 /\ after.interactionCount = before.interactionCount + 1
                 /\ Len(after.playedTileInteractions) =
                       Len(before.playedTileInteractions) + 1
                 /\ SubSeq(after.playedTileInteractions, 1,
                           Len(before.playedTileInteractions)) =
                       before.playedTileInteractions
                 /\ after.playedTileInteractions[
                        Len(after.playedTileInteractions)].connectionId =
                       hist'.lastCall.by
                 /\ [after EXCEPT
                        !.interactionCount = before.interactionCount,
                        !.playedTileInteractions =
                            before.playedTileInteractions] = before
            ELSE /\ ~hist'.lastCall.stored
                 /\ after = before
      ]_vars

\* a fifth response to a discard has been rejected
C29_Witness ==
    /\ hist.lastCall.action = "setPlayedTileInteraction"
    /\ ~hist.lastCall.stored
    /\ gameState[GameId].interactionCount = 4
    /\ Len(gameState[GameId].playedTileInteractions) = 4


-----------------------------------------------------------------------------
(* SpecDeletedState: the game state of a started game is deleted while     *)
(* calls of the game state service are under way, and calls go on after    *)

MaxDeletedStateCalls == 3

InitDeletedState ==
    /\ connections = <<>>
    /\ games = <<>>
    /\ \E s \in Shuffles : gameState = [g \in {GameId} |-> initGameState(s, Players)]
    /\ proc = [p \in Drawers |-> Idle]
    /\ outbox = <<>>
    /\ hist = NoHist

\* deleteGameState, once
DeletedStateDelete ==
    /\ gameState[GameId].present
    /\ hist.lastStep.op # "deleteGameState"
    /\ gameState' = [gameState EXCEPT ![GameId] = deleteGameState(@)]
    /\ hist' = [hist EXCEPT !.lastStep = Step("deleteGameState", 0, GameId, FALSE)]
    /\ UNCHANGED <<connections, games, proc, outbox>>

\* startNewGameRound, changeDealer or changeWind called when there
\* is no record: the read gives undefined, or the condition of the update
\* fails, and the call throws
CallOnMissingState(op) ==
    /\ ~gameState[GameId].present
    /\ hist.calls < MaxDeletedStateCalls
    /\ hist' = [hist EXCEPT !.calls = @ + 1,
                            !.lastCall = GameStateCall(op, 0, FALSE)]
    /\ UNCHANGED <<connections, games, gameState, proc, outbox>>

DeletedStateDrawGet ==
    /\ hist.calls < MaxDeletedStateCalls
    /\ DrawGet

DeletedStateRoundStart ==
    /\ hist.calls < MaxDeletedStateCalls
    /\ RoundStart

DeletedStateInteraction ==
    /\ hist.calls < MaxDeletedStateCalls
    /\ PlayedTileInteraction(2, "TRIPLET", FALSE)

DeletedStateReset ==
    /\ hist.calls < MaxDeletedStateCalls
    /\ ResetPlayedTileInteraction

DeletedStateCallOnMissing ==
    \E op \in {"startNewGameRound", "changeDealer", "changeWind"} :
        CallOnMissingState(op)

NextDeletedState ==
    \/ DeletedStateDelete
    \/ DeletedStateDrawGet
    \/ DrawIncrement
    \/ DeletedStateRoundStart
    \/ ChangeDealerGet(1)
    \/ ChangeWindGet(1)
    \/ ChangeWindUpdate(1)
    \/ ChangeDealerUpdate(1)
    \/ DeletedStateInteraction
    \/ DeletedStateReset
    \/ DeletedStateCallOnMissing

SpecDeletedState == InitDeletedState /\ [][NextDeletedState]_vars

\* C22: only initGameState creates a GameState record: once the record of a
\* game is deleted, no call of drawTile, setPlayedTileInteraction,
\* resetPlayedTileInteraction, startNewGameRound, changeDealer or changeWind
\* leaves a record for that game, a drawTile whose read came before the
\* deletion included.
C22_NoRecordAfterDeletion ==
    hist.lastStep.op = "deleteGameState" => ~gameState[GameId].present


-----------------------------------------------------------------------------
(* The ranges of dealer, currentWind and currentTurn *)

\* C24: in every reachable state of a game dealer, currentWind and
\* currentTurn are each in 0..3, so that the next value changeDealer and
\* changeWind compute is below 4 and their bound condition never fails.
C24_DealerWindTurnWithinFour ==
    /\ gameState[GameId].present =>
          /\ gameState[GameId].dealer \in 0..3
          /\ gameState[GameId].currentWind \in 0..3
          /\ gameState[GameId].currentTurn \in 0..3
    /\ ~hist.lastRound.failed
    /\ proc[1].pc = "changeWindUpdate" => WithinMaxUserCount(proc[1].nextWindNum)
    /\ proc[1].pc \in {"changeWindGet", "changeWindUpdate", "changeDealerUpdate"}
          => WithinMaxUserCount(proc[1].nextDealerIndex)

\* changeWind is about to store the wind after 3, dealer 3 being the last
\* dealer of the wind
C24_Witness ==
    /\ proc[1].pc = "changeWindUpdate"
    /\ proc[1].nextWindNum = 0
    /\ proc[1].nextDealerIndex = 0
    /\ gameState[GameId].currentWind = 3
    /\ gameState[GameId].dealer = 3


-----------------------------------------------------------------------------
(* The game state stored by initGameState *)

\* C27: initGameState stores a GameState with dealer = 0, currentWind = 0,
\* currentTurn = 0, interactionCount = 0, an empty playedTileInteractions
\* list, a shuffled wall of the 144 tiles, one hand per given connection, in
\* their order, and currentIndex equal to the number of wall tiles the deal
\* consumed.
C27_InitialGameState ==
    LET gs == gameState[GameId] IN
    hist.lastWrite = "initGameState" =>
        /\ gs.present
        /\ gs.dealer = 0
        /\ gs.currentWind = 0
        /\ gs.currentTurn = 0
        /\ gs.interactionCount = 0
        /\ gs.playedTileInteractions = <<>>
        /\ Len(gs.wall) = DEFAULT_WALL_LENGTH
        /\ BagOfSeq(gs.wall) = BagOfSeq(InitialTiles)
        /\ Len(gs.hands) = Len(Players)
        /\ \A i \in DOMAIN gs.hands :
              /\ gs.hands[i].connectionId = Players[i]
              /\ gs.hands[i].playedTiles = <<>>
        /\ gs.currentIndex = Len(DealtTiles(gs.hands))

\* the game state of a game that has just been started, its wall shuffled
C27_Witness ==
    /\ hist.lastWrite = "initGameState"
    /\ gameState[GameId].present
    /\ gameState[GameId].wall # InitialTiles
    /\ Len(gameState[GameId].hands) = 4
    /\ gameState[GameId].currentIndex = 4 * DEFAULT_HAND_LENGTH


-----------------------------------------------------------------------------
(* The recipients of the lobby and in-game broadcasts *)

\* the sends of the broadcast in progress that go to connectionId
SendsTo(connectionId) == {i \in DOMAIN outbox : outbox[i].to = connectionId}

\* C25: broadcastGameUpdate sends GAME_UPDATE exactly once to every
\* connection of the given list except the acting connection when sendToAll
\* is false, exactly once to every connection of the list, the actor
\* included, when sendToAll is true, and nothing when the game no longer
\* exists.
C25_GameUpdateRecipients ==
    LET a == hist.broadcast.args
        gameFound == a.gameId \in DOMAIN games /\ games[a.gameId].present IN
    hist.broadcast.fn = "broadcastGameUpdate" =>
        IF gameFound
        THEN /\ \A i \in DOMAIN outbox :
                   /\ outbox[i].action = "GAME_UPDATE"
                   /\ outbox[i].to \in Range(a.connectionIds)
             /\ \A c \in Range(a.connectionIds) :
                   Cardinality(SendsTo(c)) =
                       IF c = a.callerConnectionId /\ ~a.sendToAll
                       THEN 0 ELSE 1
        ELSE outbox = <<>>

\* the update of a game went to the three connections other than the actor
C25_Witness ==
    /\ hist.broadcast.fn = "broadcastGameUpdate"
    /\ ~hist.broadcast.args.sendToAll
    /\ hist.broadcast.args.callerConnectionId = 2
    /\ hist.broadcast.args.connectionIds = Players
    /\ Len(outbox) = 3
    /\ SendsTo(2) = {}

\* with sendToAll the actor is a recipient as well
C25_WitnessSendToAll ==
    /\ hist.broadcast.fn = "broadcastGameUpdate"
    /\ hist.broadcast.args.sendToAll
    /\ hist.broadcast.args.callerConnectionId = 2
    /\ Len(outbox) = 4
    /\ SendsTo(2) # {}

\* the recipients of the in-game broadcast called last: every other
\* connection of the users list it was given, once, and never the actor
InGameRecipientsSkipActor ==
    LET a == hist.broadcast.args IN
        /\ \A i \in DOMAIN outbox :
              /\ outbox[i].action = IF hist.broadcast.fn = "broadcastInGameMessage"
                                    THEN "IN_GAME_MESSAGE" ELSE "IN_GAME_UPDATE"
              /\ outbox[i].to \in Range(a.connectionIds)
        /\ SendsTo(a.callerConnectionId) = {}
        /\ \A c \in Range(a.connectionIds) \ {a.callerConnectionId} :
              Cardinality(SendsTo(c)) = 1

\* C26: broadcastInGameMessage and broadcastInGameUpdate send to every other
\* connection of the users list they are given, once, and never to the
\* acting connection, whatever the list and the actor.
C26_InGameBroadcastsSkipActor ==
    hist.broadcast.fn \in {"broadcastInGameMessage", "broadcastInGameUpdate"}
        => InGameRecipientsSkipActor

\* the calls that return send as C26 says: only a call that throws sends to
\* nobody
InGameBroadcastsThatReturnSkipActor ==
    hist.broadcast.fn \in {"broadcastInGameMessage", "broadcastInGameUpdate"}
        => IF hist.broadcast.threw THEN outbox = <<>>
           ELSE InGameRecipientsSkipActor



-----------------------------------------------------------------------------
(* SpecResponse: a response is built and wrapped as a success or as a      *)
(* failure                                                                 *)

MaxResponseGames == 3

ResponseGames == 1..MaxResponseGames

ResponseStates == {"CREATED", "DELETED", "STARTED"}

ErrorMessages == {"test error message", "Games attribute cannot be empty", "{}"}

\* createGameUpdateResponse
createGameUpdateResponse(payload) == createWSResponse("GAME_UPDATE", payload)

\* createSendMessageResponse adds the time of the message to its payload
createSendMessageResponse(payload) ==
    createWSResponse("SEND_MESSAGE", payload @@ [time |-> "time"])

\* the responses that are wrapped
Responses ==
    {createGameResponse(game) : game \in ResponseGames \cup {NoGameId}}
    \cup {createJoinGameResponse(game) : game \in ResponseGames \cup {NoGameId}}
    \cup {createGameUpdateResponse([game |-> game, state |-> state]) :
              game \in ResponseGames, state \in ResponseStates}
    \cup {createSendMessageResponse([username |-> username,
                                      message |-> message]) :
              username \in {"a", "b"}, message \in {"hi", "gg"}}

InitResponse ==
    /\ connections = <<>>
    /\ games = <<>>
    /\ gameState = <<>>
    /\ \E webSocketResponse \in Responses :
          proc = [webSocketResponse |-> webSocketResponse,
                  wrapper |-> "none", error |-> ""]
    /\ outbox = <<>>
    /\ hist = NoHist

ResponseSuccess ==
    /\ proc.wrapper = "none"
    /\ proc' = [proc EXCEPT !.wrapper = "successWebSocketResponse"]
    /\ outbox' = <<successWebSocketResponse(proc.webSocketResponse)>>
    /\ UNCHANGED <<connections, games, gameState, hist>>

ResponseFailed ==
    /\ proc.wrapper = "none"
    /\ \E error \in ErrorMessages :
          /\ proc' = [proc EXCEPT !.wrapper = "failedWebSocketResponse",
                                  !.error = error]
          /\ outbox' = <<failedWebSocketResponse(proc.webSocketResponse, error)>>
    /\ UNCHANGED <<connections, games, gameState, hist>>

NextResponse == ResponseSuccess \/ ResponseFailed

SpecResponse == InitResponse /\ [][NextResponse]_vars

\* C30: successWebSocketResponse and failedWebSocketResponse keep the action
\* and every payload field of the response they wrap, and add, inside the
\* payload, success = true, respectively success = false with the error
\* message given.
C30_WrappersKeepResponse ==
    proc.wrapper # "none" =>
        LET wrapped == proc.webSocketResponse
            response == outbox[1]
            added == IF proc.wrapper = "successWebSocketResponse"
                     THEN {"success"} ELSE {"success", "error"} IN
        /\ DOMAIN response = {"action", "payload"}
        /\ response.action = wrapped.action
        /\ DOMAIN response.payload = DOMAIN wrapped.payload \cup added
        /\ \A field \in DOMAIN wrapped.payload :
              response.payload[field] = wrapped.payload[field]
        /\ response.payload.success = (proc.wrapper = "successWebSocketResponse")
        /\ proc.wrapper = "failedWebSocketResponse" =>
              response.payload.error = proc.error

\* the GAME_UPDATE response of a created game, wrapped as a failure
C30_Witness ==
    /\ proc.wrapper = "failedWebSocketResponse"
    /\ proc.error = "test error message"
    /\ proc.webSocketResponse.action = "GAME_UPDATE"
    /\ outbox[1].payload =
          [success |-> FALSE, error |-> "test error message", game |-> 1,
           state |-> "CREATED"]

\* the same response wrapped as a success
C30_WitnessSuccess ==
    /\ proc.wrapper = "successWebSocketResponse"
    /\ outbox[1] = [action |-> "GAME_UPDATE",
                    payload |-> [success |-> TRUE, game |-> 1,
                                 state |-> "CREATED"]]


-----------------------------------------------------------------------------
(* The wall positions handed out by concurrent draws *)

\* C31: within one round no wall position is handed out twice: a drawTile
\* that returns a tile returns the tile at the currentIndex it read, a
\* position past the deal, and leaves currentIndex exactly 1 above it, so
\* that no two draws under way hold the same wall index.
C31_NoWallPositionDrawnTwice ==
    /\ \A p, q \in Drawers :
          ( /\ p # q
            /\ proc[p].pc = "increment"
            /\ proc[q].pc = "increment" ) => proc[p].readIndex # proc[q].readIndex
    /\ hist.lastDraw.tileDrawn # NoTile =>
          /\ hist.lastDraw.readIndex >= getCurrentTileIndexAfterDeal(Players)
          /\ gameState[GameId].currentIndex = hist.lastDraw.readIndex + 1


-----------------------------------------------------------------------------
(* SpecUsername: clients connect, disconnect and set their username        *)

MaxUsernameCalls == 4

\* a connection item without a username attribute
NoUsername == "undefined"

Usernames == {"", "a", "b"}

\* setUsername: its ConditionExpression
\* 'connectionId = :connectionIdVal and :usernameVal <> :emptyString'
setUsernameConditionAnyName(user, username) == user.present

setUsernameCondition(user, username) == user.present /\ username # ""

\* its UpdateExpression 'SET username = :usernameVal'
setUsername(user, username) == [user EXCEPT !.username = username]

\* setUsername: one conditional update; when the condition fails the update
\* is rejected and the call throws
SetUsername(connectionId, username) ==
    /\ hist.calls < MaxUsernameCalls
    /\ LET applied == setUsernameCondition(connections[connectionId], username) IN
       /\ connections' = IF applied
              THEN [connections EXCEPT ![connectionId] = setUsername(@, username)]
              ELSE connections
       /\ hist' = [hist EXCEPT !.calls = @ + 1, !.lastCall =
               UserDBCall("setUsername", connectionId, NoGameId, applied)
                   @@ [username |-> username]]
    /\ UNCHANGED <<games, gameState, proc, outbox>>

InitUsername ==
    /\ connections = [c \in Callers |-> NoUser @@ [username |-> NoUsername]]
    /\ games = <<>>
    /\ gameState = <<>>
    /\ proc = <<>>
    /\ outbox = <<>>
    /\ hist = NoHist

\* saveConnection on $connect: the item holds the connection id only
UsernameSaveConnection ==
    \E c \in Callers :
        /\ ~connections[c].present
        /\ connections' = [connections EXCEPT ![c] =
                               saveConnection @@ [username |-> NoUsername]]
        /\ hist' = [hist EXCEPT !.lastCall =
                UserDBCall("saveConnection", c, NoGameId, TRUE)]
        /\ UNCHANGED <<games, gameState, proc, outbox>>

\* deleteConnection on $disconnect
UsernameDeleteConnection ==
    \E c \in Callers :
        /\ connections[c].present
        /\ connections' = [connections EXCEPT ![c] =
                               NoUser @@ [username |-> NoUsername]]
        /\ hist' = [hist EXCEPT !.lastCall =
                UserDBCall("deleteConnection", c, NoGameId, TRUE)]
        /\ UNCHANGED <<games, gameState, proc, outbox>>

UsernameSetUsername ==
    \E c \in Callers, username \in Usernames : SetUsername(c, username)

NextUsername ==
    \/ UsernameSaveConnection
    \/ UsernameDeleteConnection
    \/ UsernameSetUsername

SpecUsername == InitUsername /\ [][NextUsername]_vars

\* C40: setUsername changes a connection only if its record exists and the
\* new username is not the empty string, and then it sets the username and
\* nothing else; otherwise the call is rejected, the stored username is
\* unchanged and no connection record is created.
C40_SetUsernameIsConditional ==
    [][ CalledStep("setUsername") =>
            LET c == hist'.lastCall.by
                username == hist'.lastCall.username IN
            IF connections[c].present /\ username # ""
            THEN /\ hist'.lastCall.stored
                 /\ connections' = [connections EXCEPT ![c].username = username]
            ELSE /\ ~hist'.lastCall.stored
                 /\ connections' = connections
      ]_vars

\* the empty string was rejected as the username of a connection named "a",
\* which kept its name
C40_Witness ==
    /\ hist.lastCall.action = "setUsername"
    /\ ~hist.lastCall.stored
    /\ hist.lastCall.username = ""
    /\ connections[hist.lastCall.by].present
    /\ connections[hist.lastCall.by].username = "a"

\* a call for a connection without a record was rejected and created none
C40_WitnessNoRecord ==
    /\ hist.lastCall.action = "setUsername"
    /\ ~hist.lastCall.stored
    /\ ~connections[hist.lastCall.by].present
    /\ hist.calls = 1

\* a username was replaced by another
C40_WitnessApplied ==
    /\ hist.lastCall.action = "setUsername"
    /\ hist.lastCall.stored
    /\ hist.calls >= 2
    /\ connections[hist.lastCall.by].username = "b"


-----------------------------------------------------------------------------
(* The interaction records and their count *)

\* C37: in every reachable state of a game the length of
\* playedTileInteractions equals interactionCount, whatever the order of
\* the setPlayedTileInteraction, resetPlayedTileInteraction, initGameState
\* and startNewGameRound calls.
C37_InteractionCountIsListLength ==
    gameState[GameId].present =>
        Len(gameState[GameId].playedTileInteractions)
            = gameState[GameId].interactionCount

\* a round was restarted over a negotiation with two responses
C37_Witness ==
    /\ hist.lastCall.action = "startNewGameRound"
    /\ hist.lastCall.stored
    /\ hist.calls = 3
    /\ gameState[GameId].interactionCount = 0
    /\ gameState[GameId].playedTileInteractions = <<>>

\* two responses are stored after the game state was initialised again
C37_WitnessCounted ==
    /\ hist.lastCall.action = "setPlayedTileInteraction"
    /\ hist.calls = 5
    /\ gameState[GameId].interactionCount = 2
    /\ Len(gameState[GameId].playedTileInteractions) = 2


-----------------------------------------------------------------------------
(* SpecDrawRestart: the draw requests of two players of a started game     *)
(* whose wall is about to run out, each request one handler invocation of  *)
(* broadcastDrawTileToUser, the two interleaved at their awaits            *)

\* the connections whose draw requests are handled
RestartDrawers == {1, 2}

InitDrawRestart ==
    /\ connections = [c \in Range(Players) |->
                          [saveConnection EXCEPT !.gameId = GameId]]
    /\ games = [g \in {GameId} |->
                   [createGame(Players[1]) EXCEPT !.users = Players,
                                                  !.state = "STARTED"]]
    /\ \E dealer \in {0, 2},
          currentIndex \in (DEFAULT_WALL_LENGTH - 1)..DEFAULT_WALL_LENGTH :
          /\ gameState = [g \in {GameId} |->
                 [initGameState(1, Players) EXCEPT !.currentIndex = currentIndex,
                                                   !.dealer = dealer]]
          /\ hist = [NoHist EXCEPT !.roundDealer = dealer]
    /\ proc = [p \in RestartDrawers |-> Idle]
    /\ outbox = <<>>

\* a draw request of connection p comes in
DrawRestartDrawTileToUser(p) ==
    /\ DrawRequested
    /\ BroadcastDrawTileToUser(p, p)

\* WebSocketClient.send resolves for the messages invocation p has in
\* flight.  p awaits all of them together and no other invocation reads
\* them, so the order in which they settle is seen by nobody
DrawRestartSettle(p) ==
    /\ \E i \in PromisesOf(p) : outbox[i].status = "pending"
    /\ outbox' = [i \in DOMAIN outbox |->
                      IF i \in PromisesOf(p)
                      THEN [outbox[i] EXCEPT !.status = "sent"]
                      ELSE outbox[i]]
    /\ UNCHANGED <<connections, games, gameState, proc, hist>>

\* a step of the handler of the draw requests of p
DrawRestartHandler(p) == DrawRestartDrawTileToUser(p) \/ DrawRestartStep(p)

NextDrawRestart ==
    \/ \E p \in RestartDrawers : DrawRestartHandler(p)
    \/ \E p \in RestartDrawers : DrawRestartSettle(p)

SpecDrawRestart == InitDrawRestart /\ [][NextDrawRestart]_vars

\* every handler invocation that can take a step eventually takes one, and
\* every send in flight eventually resolves
SpecDrawRestartFair ==
    /\ SpecDrawRestart
    /\ \A p \in RestartDrawers : WF_vars(DrawRestartHandler(p))
    /\ \A p \in RestartDrawers : WF_vars(DrawRestartSettle(p))

\* C33: each wall exhaustion starts exactly one new round: when the draw
\* requests of several players observe the exhausted wall concurrently, the
\* wall is reshuffled and dealt again once, and the dealer is at most one
\* seat beyond the dealer of the exhausted round.
C33_OneRestartPerExhaustion ==
    /\ hist.rounds <= 1
    /\ gameState[GameId].dealer \in
          {hist.roundDealer, nextDealerIndex(hist.roundDealer)}


\* C39: the hand and the currentIndex a player receives in the GAME_START of
\* a round restart are that player's hand and the currentIndex stored in
\* the game state when the message is sent, also when another draw or
\* another restart of the same game ran during the delay.
C39_GameResetSendsStoredState ==
    [][\A p \in RestartDrawers :
          (proc[p].pc = "sleep" /\ proc'[p].pc = "broadcastGameReset") =>
              \A i \in (Len(outbox) + 1)..Len(outbox') :
                  /\ outbox'[i].action = "GAME_START"
                  /\ outbox'[i].payload.tiles =
                        getHandByConnectionId(gameState'[GameId].hands,
                                              outbox'[i].to).hand
                  /\ outbox'[i].payload.currentIndex =
                        gameState'[GameId].currentIndex]_vars

\* C32: once the wall of a round is exhausted, a draw request eventually
\* leads to a started new round, the index reset by startNewGameRound and
\* GAME_START sent to the players; draw requests never leave the game where
\* every later draw request fails without a restart.
C32_ExhaustionLeadsToNewRound ==
    WallExhausted(gameState[GameId].currentIndex)
        ~> (hist.rounds > 0 /\ hist.broadcast.fn = "broadcastGameReset")


-----------------------------------------------------------------------------
\* the step of startNewRoundAndSendUpdates in which startNewGameRound
\* returns
RoundRestarted ==
    /\ proc[Broadcaster].pc \in {"startNewGameRound", "changeDealerUpdate"}
    /\ proc'[Broadcaster].pc = "broadcastUpdateGameState"

\* startNewGameRound is under way
InStartNewGameRound ==
    proc[Broadcaster].pc \in
        {"startNewGameRound", "changeDealerGet", "changeWindGet",
         "changeWindUpdate", "changeDealerUpdate"}

\* C35: a round restart advances the dealer if and only if the connection
\* that ended the round is not the current dealer; when it is the dealer,
\* dealer, currentWind and currentTurn stay as they were, while wall, hands,
\* currentIndex, interactionCount and playedTileInteractions are those of a
\* new deal.
C35_DealerAdvancesUnlessDealerEndedRound ==
    [][/\ InStartNewGameRound =>
             gameState'[GameId].currentTurn = gameState[GameId].currentTurn
       /\ RoundRestarted =>
             LET before == hist'.lastRound
                 after == gameState'[GameId]
                 endedBy == proc[Broadcaster].connectionId
                 byDealer ==
                     games[GameId].users[before.dealerBefore + 1] = endedBy IN
             /\ (after.dealer # before.dealerBefore) <=> ~byDealer
             /\ ~byDealer => after.dealer = (before.dealerBefore + 1) % 4
             /\ byDealer => /\ after.dealer = before.dealerBefore
                            /\ after.currentWind = before.windBefore
             /\ after.currentIndex = 4 * DEFAULT_HAND_LENGTH
             /\ after.interactionCount = 0
             /\ after.playedTileInteractions = <<>>
             /\ Len(after.wall) = DEFAULT_WALL_LENGTH
             /\ DealtTiles(after.hands) =
                    SubSeq(after.wall, 1, after.currentIndex)]_vars

\* the dealer's draw found the wall exhausted and the round was restarted
\* with the dealer, the wind and the turn kept
C35_Witness ==
    /\ hist.lastWrite = "startNewGameRound"
    /\ ~hist.lastRound.isDealerChanged
    /\ hist.lastRound.by = Players[hist.lastRound.dealerBefore + 1]
    /\ gameState[GameId].dealer = hist.lastRound.dealerBefore
    /\ gameState[GameId].currentIndex = 4 * DEFAULT_HAND_LENGTH

\* another player's draw found the wall exhausted and the dealer advanced
C35_WitnessAdvanced ==
    /\ hist.lastWrite = "startNewGameRound"
    /\ hist.lastRound.by # Players[hist.lastRound.dealerBefore + 1]
    /\ gameState[GameId].dealer = (hist.lastRound.dealerBefore + 1) % 4


-----------------------------------------------------------------------------
(* SpecPageLoad: the four players of a started game report their loaded     *)
(* pages with GAME_PAGE_LOAD, the handlers interleaved at their awaits, and *)
(* draw tiles once the game has started                                     *)

\* the GAME_PAGE_LOAD actions sent to the game in all
MaxPageLoads == 6

\* the DRAW_TILE actions sent to the game in all
MaxPageLoadDraws == 2

\* GAME_PAGE_LOAD, first await: the loaded page is counted
PageLoadIncrement(c) ==
    /\ proc[c].pc = "idle"
    /\ games[GameId].gameLoadedCount < MaxPageLoads
    /\ games' = [games EXCEPT ![GameId] = incrementGameLoadedCount(@)]
    /\ proc' = [proc EXCEPT ![c] =
           [pc |-> "loaded", gameLoadedCount |-> games'[GameId].gameLoadedCount]]
    /\ UNCHANGED <<connections, gameState, outbox, hist>>

\* GAME_PAGE_LOAD, after the count: broadcastGameStart with startNewGame
\* true, whose first await puts the game state of initGameState; GAME_START
\* is then sent to the connections.  Below or beyond the gate the handler
\* returns
PageLoadGameStart(c, s) ==
    /\ proc[c].pc = "loaded"
    /\ LET connectionIds == games[GameId].users
           newGameState == initGameState(s, connectionIds) IN
       IF gameStartGate(proc[c].gameLoadedCount)
       THEN /\ gameState' = [gameState EXCEPT ![GameId] = newGameState]
            /\ outbox' = outbox \o IssuedBy(c, SendEach("GAME_START",
                   [cid \in Range(connectionIds) |->
                       GameStartPayload(newGameState.hands,
                                        newGameState.currentIndex, cid)],
                   connectionIds))
            /\ proc' = [proc EXCEPT ![c] = [pc |-> "broadcastGameStart"]]
            /\ hist' = [hist EXCEPT !.lastWrite = "initGameState",
                                    !.rounds = @ + 1,
                                    !.lastRound.by = c,
                                    !.lastRound.indexBefore =
                                        gameState[GameId].currentIndex]
       ELSE /\ proc' = [proc EXCEPT ![c] = Idle]
            /\ UNCHANGED <<gameState, outbox, hist>>
    /\ UNCHANGED <<connections, games>>

\* WebSocketClient.send resolves for the GAME_START messages of c, which c
\* awaits together
PageLoadSettle(c) ==
    /\ \E i \in PromisesOf(c) : outbox[i].status = "pending"
    /\ outbox' = [i \in DOMAIN outbox |->
                      IF i \in PromisesOf(c)
                      THEN [outbox[i] EXCEPT !.status = "sent"]
                      ELSE outbox[i]]
    /\ UNCHANGED <<connections, games, gameState, proc, hist>>

\* 'await Promise.all(promises)' of broadcastGameStart returns, and so does
\* the handler
PageLoadGameStartJoined(c) ==
    /\ proc[c].pc = "broadcastGameStart"
    /\ PromisesResolved(c)
    /\ proc' = [proc EXCEPT ![c] = Idle]
    /\ UNCHANGED <<connections, games, gameState, outbox, hist>>

\* DRAW_TILE: drawTile, first await, the read of the game state
PageLoadDrawTileGet(c) ==
    /\ hist.calls < MaxPageLoadDraws
    /\ DrawTileGet(c)

\* DRAW_TILE: drawTile, second await, the increment of the index read
PageLoadDrawTileIncrement(c) == DrawTileIncrement(c)

InitPageLoad ==
    /\ connections = [c \in Range(Players) |->
                          [saveConnection EXCEPT !.gameId = GameId]]
    /\ games = [g \in {GameId} |->
                   [createGame(Players[1]) EXCEPT !.users = Players,
                                                  !.state = "STARTED"]]
    /\ gameState = [g \in {GameId} |-> NoGameState]
    /\ proc = [c \in Range(Players) |-> Idle]
    /\ outbox = <<>>
    /\ hist = NoHist

PageLoadCounted == \E c \in Range(Players) : PageLoadIncrement(c)

PageLoadGated == \E c \in Range(Players), s \in Shuffles : PageLoadGameStart(c, s)

PageLoadSettled == \E c \in Range(Players) : PageLoadSettle(c)

PageLoadJoined == \E c \in Range(Players) : PageLoadGameStartJoined(c)

PageLoadDrawGet == \E c \in Range(Players) : PageLoadDrawTileGet(c)

PageLoadDrawIncrement == \E c \in Range(Players) : PageLoadDrawTileIncrement(c)

NextPageLoad ==
    \/ PageLoadCounted
    \/ PageLoadGated
    \/ PageLoadSettled
    \/ PageLoadJoined
    \/ PageLoadDrawGet
    \/ PageLoadDrawIncrement

SpecPageLoad == InitPageLoad /\ [][NextPageLoad]_vars

\* a step that starts a game: initGameState writes the game state, or
\* GAME_START is sent
GameStarts ==
    \/ hist'.rounds # hist.rounds
    \/ hist'.lastWrite = "initGameState" /\ gameState' # gameState
    \/ \E i \in (DOMAIN outbox') \ DOMAIN outbox : outbox'[i].action = "GAME_START"

\* C36: the start of a new game, initGameState and the first GAME_START,
\* happens at most once per game and only for the GAME_PAGE_LOAD that made
\* gameLoadedCount 4; the game state of a round in progress is never
\* overwritten by a second initGameState.
C36_GameStartsOnceAtFourLoads ==
    [][GameStarts =>
          /\ hist.rounds = 0
          /\ ~gameState[GameId].present
          /\ \A i \in DOMAIN outbox : outbox[i].action # "GAME_START"
          /\ \E c \in Range(Players) :
                /\ proc[c].pc = "loaded"
                /\ proc[c].gameLoadedCount = DEFAULT_MAX_USERS_IN_GAME
                /\ games[GameId].gameLoadedCount >= proc[c].gameLoadedCount
                /\ proc'[c].pc = "broadcastGameStart"
                /\ \A i \in (DOMAIN outbox') \ DOMAIN outbox :
                      outbox'[i].action = "GAME_START" /\ outbox'[i].by = c
          /\ hist'.rounds = 1
          /\ gameState'[GameId].present
          /\ {outbox'[i].to : i \in (DOMAIN outbox') \ DOMAIN outbox}
                = Range(games[GameId].users)]_vars

\* the game has started, tiles have been drawn and two more pages have been
\* reported loaded, all of them handled
C36_Witness ==
    /\ hist.rounds = 1
    /\ games[GameId].gameLoadedCount = MaxPageLoads
    /\ \A c \in Range(Players) : proc[c].pc = "idle"
    /\ gameState[GameId].present
    /\ gameState[GameId].currentIndex > getCurrentTileIndexAfterDeal(Players)
    /\ Len(outbox) = DEFAULT_MAX_USERS_IN_GAME


-----------------------------------------------------------------------------
(* SpecChangeDealer: changeDealer calls on an initialised game, made by two *)
(* handlers that interleave at the awaits of changeDealer and changeWind    *)

\* the changeDealer calls made in all
MaxChangeDealerCalls == 5

DealerChangers == {1, 2}

\* changeDealer is called
ChangeDealerCall(p) ==
    /\ proc[p].pc = "idle"
    /\ hist.calls < MaxChangeDealerCalls
    /\ proc' = [proc EXCEPT ![p] = [pc |-> "changeDealerGet"]]
    /\ hist' = [hist EXCEPT !.calls = @ + 1]
    /\ UNCHANGED <<connections, games, gameState, outbox>>

InitChangeDealer ==
    /\ connections = <<>>
    /\ games = <<>>
    /\ \E s \in Shuffles :
          gameState = [g \in {GameId} |-> initGameState(s, Players)]
    /\ proc = [p \in DealerChangers |-> Idle]
    /\ outbox = <<>>
    /\ hist = NoHist

ChangeDealerCalled == \E p \in DealerChangers : ChangeDealerCall(p)

ChangeDealerRead == \E p \in DealerChangers : ChangeDealerGet(p)

ChangeDealerWindRead == \E p \in DealerChangers : ChangeWindGet(p)

ChangeDealerWindStored == \E p \in DealerChangers : ChangeWindUpdate(p)

ChangeDealerStored == \E p \in DealerChangers : ChangeDealerUpdate(p)

NextChangeDealer ==
    \/ ChangeDealerCalled
    \/ ChangeDealerRead
    \/ ChangeDealerWindRead
    \/ ChangeDealerWindStored
    \/ ChangeDealerStored

SpecChangeDealer == InitChangeDealer /\ [][NextChangeDealer]_vars

\* C34: after k completed changeDealer calls on a game initialised by
\* initGameState, run one after another or interleaved, dealer = k mod 4 and
\* currentWind = (k div 4) mod 4; the wind update and the dealer update of
\* one call are never applied one without the other.
C34_DealerAndWindCountCalls ==
    (\A p \in DealerChangers : proc[p].pc = "idle") =>
        /\ gameState[GameId].dealer = hist.calls % 4
        /\ gameState[GameId].currentWind = (hist.calls \div 4) % 4


-----------------------------------------------------------------------------
\* C38: after every completed CREATE_GAME or JOIN_GAME handler invocation,
\* successful or failed, a connection has gameId = g exactly when it is one
\* of the users of the existing game g: none is listed in a game without
\* holding its gameId, none holds the gameId of a game that does not list it.
C38_GameIdMatchesMembership ==
    ( /\ hist.lastCall.action \in {"CREATE_GAME", "JOIN_GAME"}
      /\ hist.lastCall.statusCode # 0 ) =>
        \A c \in DOMAIN connections : \A g \in DOMAIN games :
            (connections[c].present /\ connections[c].gameId = g)
                <=> (games[g].present /\ c \in Range(games[g].users))

=============================================================================
